---- MODULE Spec2Model ----
(***************************************************************************)
(* ArchiMind analysis pipeline (src/upload): the /api/analyze handler, the *)
(* background AnalysisWorker, the status file shared between them, the     *)
(* AnalysisLog table and the bounded per-user RepositoryHistory.           *)
(***************************************************************************)
EXTENDS Integers, Sequences, FiniteSets, TLC

VARIABLES
    statusFile,      \* content of data/status.json
    analysis_logs,   \* the analysis_logs table, row id = index
    req,             \* /api/analyze requests, by request slot
    worker,          \* worker.py processes, by analysis_log_id
    clonePath,       \* repository checked out at LOCAL_CLONE_PATH
    index,           \* ChromaDB collections, by collection name
    history,         \* the repository_history table
    nextHistId,      \* next primary key of repository_history
    clock,           \* logical wall clock
    polled,          \* last response of /api/status
    cache,           \* Redis: the value under user:<id>:history, by user
    redis_client,    \* oauth_utils.redis_client of the web process
    fetched,         \* last request to the history endpoints, with its response
    mermaid_code,    \* a Mermaid text passed through _sanitize_mermaid_code
    raw_value        \* a generated text passed through _parse_graph_data

webVars == <<cache, redis_client, fetched>>
textVars == <<mermaid_code, raw_value>>

vars == <<statusFile, analysis_logs, req, worker, clonePath, index,
          history, nextHistId, clock, polled, webVars, textVars>>

----------------------------------------------------------------------------
(* Bounds *)

MaxReq == 2          \* number of /api/analyze requests
MaxUpserts == 2      \* direct history upserts in SpecHistory
MaxRepos == 6        \* distinct repositories in SpecHistory
MaxPieces == 3       \* pieces concatenated into a text in SpecSanitize
MaxPasses == 2       \* applications of the sanitizer to one text
MaxTalk == 2         \* pieces in a preamble or a postamble in SpecParse
MaxFiles == 3        \* files of a repository in SpecEmbed
MaxSavers == 2       \* worker processes saving to the history at once

(* Program constants *)

ANONYMOUS_GENERATION_LIMIT == 5
HISTORY_LIMIT == 5
RAW_PREVIEW_LENGTH == 400

----------------------------------------------------------------------------
(* Values *)

Null == [t |-> "null"]                 \* JSON null / Python None
Str(s) == [t |-> "str", v |-> s]       \* a JSON string
NoId == "NULL"                         \* SQL NULL in user_id / session_id
NoUrl == <<>>                          \* absent or empty repo_url

Users == {"u1"}
Sessions == {"s1"}
Clients == Users \cup Sessions
\* the owners of history entries
HistUsers == {"u1", "u2"}
Connected == "connected"
NoClient == "none"                     \* redis_client = None

\* worker.py imports oauth_utils and never calls init_redis
WorkerRedisClient == NoClient

NoCache == Null                        \* redis GET of an absent key

NoFetch == [op |-> "none"]
Anonymous == "anonymous"               \* current_user.is_authenticated is False

\* no text has been passed to the sanitizer / the parser
NoCode == [passes |-> 0]
NoRaw == [parsed |-> FALSE]
\* a repository URL is <<organisation, name>>; "e" has no qualifying file
Urls == {<<"a", "x">>, <<"a", "e">>}
Collections == {"x", "e"}

MsgClone == "Failed to clone repository"
MsgNoFiles == "No processable files found in repository"
MsgContext == "Failed to retrieve context from vector store"
MsgVector == "Vector store initialization failed"
MsgGemini == "Gemini API initialization failed"

\* repo_url.rstrip("/").split("/")[-1]
RepoName(url) == url[2]

\* dict.get(key): None when the key is absent
Get(d, k) == IF k \in DOMAIN d THEN d[k] ELSE Null

----------------------------------------------------------------------------
(* The status file. open(path, "w") truncates, json.dump fills it in. *)

MissingFile == [content |-> "missing"]
PartialFile == [content |-> "partial"]
GarbledFile == [content |-> "garbled"]
JsonFile(st) == [content |-> "json", value |-> st]

IdleStatus == [status |-> "idle"]
ProcessingStatus == [status |-> "processing", result |-> Null, error |-> Null]
IdleDefault == [status |-> "idle", result |-> Null, error |-> Null]
NoResponse == [status |-> "none"]

\* open and json.load: the parsed status, or FileNotFoundError or
\* JSONDecodeError, which the readers catch alike
JsonLoad(f) ==
    IF f.content = "json" THEN [ok |-> TRUE, value |-> f.value]
    ELSE [ok |-> FALSE]

----------------------------------------------------------------------------
(* Initial state *)

\* a row left by an earlier anonymous run of session "s1"
PriorLog ==
    [user_id |-> NoId, session_id |-> "s1", repo_url |-> <<"a", "x">>,
     status |-> "failed"]

NewRequest ==
    [pc |-> "new", repo_url |-> NoUrl, user_id |-> NoId,
     session_id |-> NoId, logId |-> 0, response |-> 0]

InitStores ==
    /\ req = [r \in 1..MaxReq |-> NewRequest]
    /\ worker = <<>>
    /\ clonePath = NoUrl
    /\ index = [c \in Collections |-> {}]
    /\ history = {}
    /\ nextHistId = 1
    /\ clock = 1
    /\ polled = NoResponse
    /\ cache = [u \in HistUsers |-> NoCache]
    /\ redis_client = Connected
    /\ fetched = NoFetch

InitPipeline ==
    /\ InitStores
    /\ mermaid_code = NoCode
    /\ raw_value = NoRaw

\* a fresh data directory (_initialize_data_directory wrote the idle status)
\* beside a database that holds the rows of earlier anonymous runs
Init ==
    /\ InitPipeline
    /\ analysis_logs = [i \in 1..(ANONYMOUS_GENERATION_LIMIT - 1) |-> PriorLog]
    /\ statusFile = JsonFile(IdleStatus)

----------------------------------------------------------------------------
(* app.py: ArchiMindApplication._api_analyze *)

\* AnalysisLog.query.filter_by(session_id=session_id).count()
SessionCount(logs, sid) ==
    Cardinality({i \in DOMAIN logs : logs[i].session_id = sid})

\* the limit compared with > instead of >=
LimitReachedStrict(count) == count > ANONYMOUS_GENERATION_LIMIT

\* count >= ANONYMOUS_GENERATION_LIMIT
LimitReached(count) == count >= ANONYMOUS_GENERATION_LIMIT

\* the 409 test: status.get('status') == 'processing', unreadable file passes
AlreadyProcessing(f) ==
    LET loaded == JsonLoad(f)
    IN  loaded.ok /\ loaded.value.status = "processing"

\* the handler returns: its locals are gone, the response and the row remain
Respond(r, code) ==
    req' = [req EXCEPT ![r] = [NewRequest EXCEPT !.pc = "done",
                                                 !.response = code,
                                                 !.logId = req[r].logId]]

\* lines 182-199: URL check and anonymous quota check
ApiAnalyzeBegin(r, url, client) ==
    /\ req[r].pc = "new"
    /\ \A q \in 1..(r - 1) : req[q].pc # "new"
    /\ IF url = NoUrl
       THEN Respond(r, 400)
       ELSE IF client \in Sessions /\ LimitReached(SessionCount(analysis_logs, client))
       THEN Respond(r, 403)
       ELSE req' = [req EXCEPT ![r].pc = "read_status",
                               ![r].repo_url = url,
                               ![r].user_id = IF client \in Users THEN client ELSE NoId,
                               ![r].session_id = IF client \in Sessions THEN client ELSE NoId]
    /\ UNCHANGED <<statusFile, analysis_logs, worker, clonePath, index,
                   history, nextHistId, clock, polled, webVars, textVars>>

\* the handler inserting the log row before it looks at the status file
ApiAnalyzeReadStatusLogsFirst(r) ==
    /\ req[r].pc = "read_status"
    /\ IF AlreadyProcessing(statusFile)
       THEN /\ Respond(r, 409)
            /\ analysis_logs' = Append(analysis_logs,
                    [user_id |-> req[r].user_id, session_id |-> req[r].session_id,
                     repo_url |-> req[r].repo_url, status |-> "pending"])
       ELSE /\ req' = [req EXCEPT ![r].pc = "add_log"]
            /\ UNCHANGED analysis_logs
    /\ UNCHANGED <<statusFile, worker, clonePath, index,
                   history, nextHistId, clock, polled, webVars, textVars>>

\* lines 201-208: reject while an analysis is processing
ApiAnalyzeReadStatus(r) ==
    /\ req[r].pc = "read_status"
    /\ IF AlreadyProcessing(statusFile)
       THEN Respond(r, 409)
       ELSE req' = [req EXCEPT ![r].pc = "add_log"]
    /\ UNCHANGED <<statusFile, analysis_logs, worker, clonePath, index,
                   history, nextHistId, clock, polled, webVars, textVars>>

\* lines 210-218: insert the AnalysisLog row and commit
ApiAnalyzeAddLog(r) ==
    /\ req[r].pc = "add_log"
    /\ analysis_logs' = Append(analysis_logs,
            [user_id |-> req[r].user_id, session_id |-> req[r].session_id,
             repo_url |-> req[r].repo_url, status |-> "pending"])
    /\ req' = [req EXCEPT ![r].pc = "popen", ![r].logId = Len(analysis_logs) + 1]
    /\ UNCHANGED <<statusFile, worker, clonePath, index,
                   history, nextHistId, clock, polled, webVars, textVars>>

\* the four generated texts; "" is what _generate_content returns on failure
NoDocs ==
    [documentation |-> "", hld |-> <<>>, lld |-> <<>>, chat_summary |-> ""]

\* worker.py main(): a fresh AnalysisWorker about to call run_analysis
NewWorker(url) ==
    [pc |-> "open_processing", repo_url |-> url,
     status |-> ProcessingStatus, file_contents |-> {}, context |-> "",
     docs |-> NoDocs, written |-> <<>>, stages |-> <<>>]

\* lines 220-223: subprocess.Popen of worker.py, then 202
ApiAnalyzePopen(r) ==
    /\ req[r].pc = "popen"
    /\ worker' = [w \in DOMAIN worker \cup {req[r].logId} |->
                    IF w = req[r].logId THEN NewWorker(req[r].repo_url)
                    ELSE worker[w]]
    /\ Respond(r, 202)
    /\ UNCHANGED <<statusFile, analysis_logs, clonePath, index,
                   history, nextHistId, clock, polled, webVars, textVars>>

----------------------------------------------------------------------------
(* Texts are sequences of characters; the Python str and re operations    *)
(* that worker.py applies to them.                                         *)

Lowers ==
    <<"a", "b", "c", "d", "e", "f", "g", "h", "i", "j", "k", "l", "m",
      "n", "o", "p", "q", "r", "s", "t", "u", "v", "w", "x", "y", "z">>
Uppers ==
    <<"A", "B", "C", "D", "E", "F", "G", "H", "I", "J", "K", "L", "M",
      "N", "O", "P", "Q", "R", "S", "T", "U", "V", "W", "X", "Y", "Z">>
LowerSet == {Lowers[i] : i \in DOMAIN Lowers}
UpperSet == {Uppers[i] : i \in DOMAIN Uppers}
Digits == {"0", "1", "2", "3", "4", "5", "6", "7", "8", "9"}

\* str.isspace() and \s, on the characters the model draws
Whitespace == {" ", "\t", "\n", "\r"}
\* the line boundaries of str.splitlines(), on the characters the model draws
LineBreaks == {"\n", "\r"}

IsLetter(c) == c \in LowerSet \cup UpperSet            \* [A-Za-z]
IsWord(c) == IsLetter(c) \/ c \in Digits \/ c = "_"    \* \w
IsIdChar(c) == IsWord(c) \/ c = "-"                    \* [A-Za-z0-9_\-]

\* str.lower() and str.upper() of one character
LowerChar(c) ==
    IF c \in UpperSet THEN Lowers[CHOOSE i \in DOMAIN Uppers : Uppers[i] = c] ELSE c
UpperChar(c) ==
    IF c \in LowerSet THEN Uppers[CHOOSE i \in DOMAIN Lowers : Lowers[i] = c] ELSE c

\* str.lower()
LowerText(s) == [i \in DOMAIN s |-> LowerChar(s[i])]

\* str.capitalize()
Capitalize(s) ==
    [i \in DOMAIN s |-> IF i = 1 THEN UpperChar(s[i]) ELSE LowerChar(s[i])]

Min(S) == CHOOSE i \in S : \A j \in S : i <= j
Max(S) == CHOOSE i \in S : \A j \in S : j <= i

\* the first index >= from whose character is in chars, 0 when there is none
FindIn(s, from, chars) ==
    LET hits == {i \in from..Len(s) : s[i] \in chars}
    IN  IF hits = {} THEN 0 ELSE Min(hits)

\* the first index >= from whose character is not in chars, Len(s) + 1 when
\* there is none: the end of a greedy run
SkipIn(s, from, chars) ==
    LET stops == {i \in from..Len(s) : s[i] \notin chars}
    IN  IF stops = {} THEN Len(s) + 1 ELSE Min(stops)

\* s[from:to], both ends 1-based and inclusive
Slice(s, from, to) == IF to < from THEN <<>> ELSE SubSeq(s, from, to)

\* str.lstrip(), str.rstrip(), str.strip()
LStrip(s) == Slice(s, SkipIn(s, 1, Whitespace), Len(s))
RStrip(s) ==
    LET keep == {i \in DOMAIN s : s[i] \notin Whitespace}
    IN  IF keep = {} THEN <<>> ELSE SubSeq(s, 1, Max(keep))
Strip(s) == LStrip(RStrip(s))

\* str.startswith(prefix), str.endswith(suffix)
StartsWith(s, prefix) ==
    Len(prefix) <= Len(s) /\ SubSeq(s, 1, Len(prefix)) = prefix
EndsWith(s, suffix) ==
    Len(suffix) <= Len(s) /\ SubSeq(s, Len(s) - Len(suffix) + 1, Len(s)) = suffix

RECURSIVE CollapseSpaces(_, _)
\* re.sub(r"\s+", " ", s), from index i on
CollapseSpaces(s, i) ==
    IF i > Len(s) THEN <<>>
    ELSE IF s[i] \in Whitespace
    THEN <<" ">> \o CollapseSpaces(s, SkipIn(s, i, Whitespace))
    ELSE <<s[i]>> \o CollapseSpaces(s, i + 1)

RECURSIVE Join(_, _)
\* sep.join(parts)
Join(parts, sep) ==
    IF parts = <<>> THEN <<>>
    ELSE IF Len(parts) = 1 THEN parts[1]
    ELSE parts[1] \o sep \o Join(Tail(parts), sep)

RECURSIVE Concat(_)
\* "".join(parts)
Concat(parts) ==
    IF parts = <<>> THEN <<>> ELSE parts[1] \o Concat(Tail(parts))

RECURSIVE SplitLinesFrom(_, _, _)
\* str.splitlines(): "\r\n" is one boundary; no empty last line
SplitLinesFrom(s, i, line) ==
    IF i > Len(s) THEN (IF line = <<>> THEN <<>> ELSE <<line>>)
    ELSE IF s[i] = "\r" /\ i < Len(s) /\ s[i + 1] = "\n"
    THEN <<line>> \o SplitLinesFrom(s, i + 2, <<>>)
    ELSE IF s[i] \in LineBreaks
    THEN <<line>> \o SplitLinesFrom(s, i + 1, <<>>)
    ELSE SplitLinesFrom(s, i + 1, Append(line, s[i]))

SplitLines(s) == SplitLinesFrom(s, 1, <<>>)

RECURSIVE SplitOn(_, _, _, _)
\* re.split on single characters of seps, from index i on
SplitOn(s, seps, i, part) ==
    IF i > Len(s) THEN <<part>>
    ELSE IF s[i] \in seps THEN <<part>> \o SplitOn(s, seps, i + 1, <<>>)
    ELSE SplitOn(s, seps, i + 1, Append(part, s[i]))

----------------------------------------------------------------------------
(* worker.py: AnalysisWorker._sanitize_mermaid_code *)

\* the label rewritten by the lambda of the first re.sub
CollapsedLabel(group1, group2) ==
    <<"[">> \o Strip(CollapseSpaces(group1 \o <<" ">> \o group2, 1)) \o <<"]">>

RECURSIVE CollapseLabels(_, _)
\* lines 108-115: re.sub(r"\[([^\]]*?)\n\s*([^\]]*?)\]", ...), from index i
\* on. A match starts at a "[" whose first following "]" comes after a "\n".
CollapseLabels(s, i) ==
    IF i > Len(s) THEN <<>>
    ELSE LET close == FindIn(s, i + 1, {"]"})
             break == FindIn(s, i + 1, {"\n"})
         IN  IF s[i] = "[" /\ close # 0 /\ break # 0 /\ break < close
             THEN LET rest == SkipIn(s, break + 1, Whitespace)
                  IN  CollapsedLabel(Slice(s, i + 1, break - 1),
                                     Slice(s, rest, close - 1))
                          \o CollapseLabels(s, close + 1)
             ELSE <<s[i]>> \o CollapseLabels(s, i + 1)

\* to_camel_case, lines 118-126
ToCamelCase(node_id) ==
    LET parts == SplitOn(node_id, {"_", "-"}, 1, <<>>)
    IN  IF Len(parts) > 1
        THEN LET words == SelectSeq(Tail(parts), LAMBDA word : word # <<>>)
                 camel_case == LowerText(parts[1])
                                \o Concat([k \in DOMAIN words |-> Capitalize(words[k])])
             IN  IF camel_case # <<>> /\ ~IsLetter(camel_case[1])
                 THEN <<"n", "o", "d", "e">> \o camel_case
                 ELSE camel_case
        ELSE node_id

RECURSIVE NodeIds(_, _)
\* lines 132-133: node_pattern.finditer, r'\b([A-Za-z][A-Za-z0-9_\-]*)\s*\[',
\* from index i on: the identifiers in order of appearance
NodeIds(s, i) ==
    IF i > Len(s) THEN <<>>
    ELSE IF IsLetter(s[i]) /\ (i = 1 \/ ~IsWord(s[i - 1]))
    THEN LET stop == SkipIn(s, i, LowerSet \cup UpperSet \cup Digits \cup {"_", "-"})
             bracket == SkipIn(s, stop, Whitespace)
         IN  IF bracket <= Len(s) /\ s[bracket] = "["
             THEN <<SubSeq(s, i, stop - 1)>> \o NodeIds(s, bracket + 1)
             ELSE NodeIds(s, i + 1)
    ELSE NodeIds(s, i + 1)

RECURSIVE ChangedIds(_, _)
\* lines 134-137: the keys of node_id_map, in insertion order
ChangedIds(ids, seen) ==
    IF ids = <<>> THEN <<>>
    ELSE IF ids[1] \in seen \/ ToCamelCase(ids[1]) = ids[1]
    THEN ChangedIds(Tail(ids), seen)
    ELSE <<ids[1]>> \o ChangedIds(Tail(ids), seen \cup {ids[1]})

RECURSIVE SortedByLength(_)
\* sorted(keys, key=len, reverse=True): longest first, the sort being stable
SortedByLength(keys) ==
    IF keys = <<>> THEN <<>>
    ELSE LET longest == Max({Len(keys[k]) : k \in DOMAIN keys})
             first == Min({k \in DOMAIN keys : Len(keys[k]) = longest})
         IN  <<keys[first]>>
                \o SortedByLength(SubSeq(keys, 1, first - 1)
                                  \o SubSeq(keys, first + 1, Len(keys)))

\* \b at the boundary between s[i - 1] and s[i]
WordBoundary(s, i) ==
    LET before == i > 1 /\ IsWord(s[i - 1])
        after == i <= Len(s) /\ IsWord(s[i])
    IN  before # after

RECURSIVE ReplaceId(_, _, _, _)
\* line 144: re.sub(r'\b' + re.escape(old_id) + r'\b', new_id, code), from
\* index i on
ReplaceId(s, old_id, new_id, i) ==
    IF i > Len(s) THEN <<>>
    ELSE LET end == i + Len(old_id) - 1
         IN  IF /\ end <= Len(s)
                /\ SubSeq(s, i, end) = old_id
                /\ WordBoundary(s, i)
                /\ WordBoundary(s, end + 1)
             THEN new_id \o ReplaceId(s, old_id, new_id, end + 1)
             ELSE <<s[i]>> \o ReplaceId(s, old_id, new_id, i + 1)

RECURSIVE ReplaceIds(_, _)
\* lines 141-144: one substitution after the other
ReplaceIds(s, keys) ==
    IF keys = <<>> THEN s
    ELSE ReplaceIds(ReplaceId(s, keys[1], ToCamelCase(keys[1]), 1), Tail(keys))

\* lines 128-144: the text with its declared identifiers in camelCase
NormalizeIds(s) == ReplaceIds(s, SortedByLength(ChangedIds(NodeIds(s, 1), {})))

RECURSIVE LetterBetweenNodes(_, _)
\* lines 147 and 155: re.sub(r"\]\s+[A-Za-z]\s+(?=[-<])", "] ", line), from
\* index i on
LetterBetweenNodes(s, i) ==
    IF i > Len(s) THEN <<>>
    ELSE LET letter == SkipIn(s, i + 1, Whitespace)
             arrow == SkipIn(s, letter + 1, Whitespace)
         IN  IF /\ s[i] = "]"
                /\ letter > i + 1 /\ letter <= Len(s) /\ IsLetter(s[letter])
                /\ arrow > letter + 1 /\ arrow <= Len(s) /\ s[arrow] \in {"-", "<"}
             THEN <<"]", " ">> \o LetterBetweenNodes(s, arrow)
             ELSE <<s[i]>> \o LetterBetweenNodes(s, i + 1)

Activate == <<"a", "c", "t", "i", "v", "a", "t", "e", " ">>
Deactivate == <<"d", "e">> \o Activate

\* the test without the space that ends the keyword
IsLifecycleLineAnyFollower(line) ==
    LET stripped == LowerText(Strip(line))
    IN  \/ StartsWith(stripped, SubSeq(Activate, 1, Len(Activate) - 1))
        \/ StartsWith(stripped, SubSeq(Deactivate, 1, Len(Deactivate) - 1))

\* lines 151-153: the test that drops a line
IsLifecycleLine(line) ==
    LET stripped == LowerText(Strip(line))
    IN  StartsWith(stripped, Activate) \/ StartsWith(stripped, Deactivate)

\* lines 149-158: drop the lifecycle lines, clean and right-trim the others
SanitizedLines(s) ==
    LET kept == SelectSeq(SplitLines(s), LAMBDA line : ~IsLifecycleLine(line))
    IN  [k \in DOMAIN kept |-> RStrip(LetterBetweenNodes(kept[k], 1))]

\* _sanitize_mermaid_code
SanitizeMermaidCode(text) ==
    Join(SanitizedLines(NormalizeIds(CollapseLabels(text, 1))), <<"\n">>)

----------------------------------------------------------------------------
(* worker.py: AnalysisWorker *)

\* _update_status, first half: open(status_file, "w") truncates the file
UpdateStatusOpen(f) == PartialFile

\* _update_status, second half: json.dump writes from offset 0 and closes.
\* When another writer filled the file in since this writer truncated it,
\* the bytes past the end of this status stay in place.
UpdateStatusDump(f, st) ==
    IF f.content = "partial" THEN {JsonFile(st)}
    ELSE {JsonFile(st), GarbledFile}

\* the log update taking a failed run out of its session's count
UpdateDatabaseLogForgetsFailed(logs, id, st, dbOk) ==
    IF dbOk /\ id \in DOMAIN logs
    THEN [logs EXCEPT ![id].status = st,
                      ![id].session_id = IF st = "failed" THEN NoId ELSE @]
    ELSE logs

\* _update_database_log: set the row's status; a database error is swallowed
UpdateDatabaseLog(logs, id, st, dbOk) ==
    IF id \in DOMAIN logs /\ dbOk
    THEN [logs EXCEPT ![id].status = st]
    ELSE logs

\* json.loads after _clean_json_response, on the texts the model draws from
\* the Markdown fence and the language tag behind it
\* the character U+0060, which a TLA+ string cannot hold
Backtick == "<backtick>"
Fence == <<Backtick, Backtick, Backtick>>
LongFence == <<Backtick, Backtick, Backtick, Backtick>>
JsonTag == <<"j", "s", "o", "n">>

\* str.rfind of one character: the last index that holds it, 0 when none
RFind(s, chars) ==
    LET hits == {i \in DOMAIN s : s[i] \in chars}
    IN  IF hits = {} THEN 0 ELSE Max(hits)

\* the opening marker and the tag dropped, the trailing fence kept
UnfencedOpeningOnly(cleaned) ==
    LET unticked == Slice(cleaned, SkipIn(cleaned, 1, {Backtick}), Len(cleaned))
    IN  Strip(IF StartsWith(unticked, JsonTag)
              THEN Slice(unticked, Len(JsonTag) + 1, Len(unticked))
              ELSE unticked)

\* lines 83-91: the text inside a Markdown fence
Unfenced(cleaned) ==
    LET unticked == Slice(cleaned, SkipIn(cleaned, 1, {Backtick}), Len(cleaned))
        untagged == IF StartsWith(unticked, JsonTag)
                    THEN Slice(unticked, Len(JsonTag) + 1, Len(unticked))
                    ELSE unticked
        body == Strip(untagged)
    IN  IF EndsWith(body, LongFence) THEN Slice(body, 1, Len(body) - 4)
        ELSE IF EndsWith(body, Fence) THEN Slice(body, 1, Len(body) - 3)
        ELSE body

\* the text left as it is, whatever it starts with
SliceBracesSkipped(cleaned) == cleaned

\* lines 93-98: the slice from the first "{" to the last "}", taken when the
\* text does not start with "{"
SliceBraces(cleaned) ==
    LET start == FindIn(cleaned, 1, {"{"})
        end == RFind(cleaned, {"}"})
    IN  IF /\ cleaned # <<>> /\ cleaned[1] # "{"
           /\ start # 0 /\ end # 0 /\ end > start
        THEN Slice(cleaned, start, end)
        ELSE cleaned

\* _clean_json_response
CleanJsonResponse(raw) ==
    IF raw = <<>> THEN <<>>
    ELSE LET cleaned == Strip(raw)
         IN  SliceBraces(Strip(IF StartsWith(cleaned, Fence)
                               THEN Unfenced(cleaned)
                               ELSE cleaned))

\* the values json.loads builds. A dict is a function of its keys: equal
\* dicts hold equal members whatever their order. A float is kept by its
\* literal, a \b or \uXXXX escape by its name.
JsonText(chars) == [t |-> "text", chars |-> chars]
JsonInt(n) == [t |-> "int", n |-> n]
JsonFloat(literal) == [t |-> "float", literal |-> literal]
JsonBool(b) == [t |-> "bool", b |-> b]
JsonList(items) == [t |-> "list", items |-> items]
JsonDict(members) == [t |-> "dict", members |-> members]

\* dict(pairs): the last value given to a key is the one kept
DictOf(pairs) ==
    JsonDict([key \in {pairs[k].key : k \in DOMAIN pairs} |->
                pairs[Max({k \in DOMAIN pairs : pairs[k].key = key})].value])

ScanError == [ok |-> FALSE]
Scanned(value, next) == [ok |-> TRUE, value |-> value, next |-> next]

\* json.decoder.WHITESPACE
SkipWs(s, i) == SkipIn(s, i, {" ", "\t", "\n", "\r"})

\* json.decoder.BACKSLASH
Escapes ==
    [c \in {"\"", "\\", "/", "b", "f", "n", "r", "t"} |->
        CASE c = "b" -> "\\b" [] c = "f" -> "\f" [] c = "n" -> "\n"
          [] c = "r" -> "\r" [] c = "t" -> "\t" [] OTHER -> c]

HexDigits == Digits \cup {"a", "b", "c", "d", "e", "f", "A", "B", "C", "D", "E", "F"}

RECURSIVE ScanString(_, _, _)
\* json.decoder.py_scanstring, strict: s[i] is the character behind the
\* opening quote or behind the characters already read into chars
ScanString(s, i, chars) ==
    IF i > Len(s) THEN ScanError
    ELSE IF s[i] = "\"" THEN Scanned(chars, i + 1)
    ELSE IF s[i] = "\\"
    THEN IF i + 1 > Len(s) THEN ScanError
         ELSE IF s[i + 1] \in DOMAIN Escapes
         THEN ScanString(s, i + 2, Append(chars, Escapes[s[i + 1]]))
         ELSE IF /\ s[i + 1] = "u" /\ i + 5 <= Len(s)
                 /\ \A k \in (i + 2)..(i + 5) : s[k] \in HexDigits
         THEN ScanString(s, i + 6,
                         Append(chars, "\\u" \o s[i + 2] \o s[i + 3]
                                             \o s[i + 4] \o s[i + 5]))
         ELSE ScanError
    ELSE IF s[i] \in {"\n", "\r", "\t", "\f"} THEN ScanError
    ELSE ScanString(s, i + 1, Append(chars, s[i]))

RECURSIVE IntOf(_)
\* int(digits)
IntOf(digits) ==
    IF digits = <<>> THEN 0
    ELSE 10 * IntOf(SubSeq(digits, 1, Len(digits) - 1))
            + CHOOSE d \in 0..9 : ToString(d) = digits[Len(digits)]

\* json.scanner.NUMBER_RE: an optional minus, then 0 or a run of digits that
\* starts with 1-9, an optional fraction, an optional exponent. Each part is
\* given by the index behind it.
IntegerEnd(s, first) ==
    IF first <= Len(s) /\ s[first] = "0" THEN first + 1
    ELSE SkipIn(s, first, Digits)

FractionEnd(s, integer) ==
    IF integer + 1 <= Len(s) /\ s[integer] = "." /\ s[integer + 1] \in Digits
    THEN SkipIn(s, integer + 1, Digits)
    ELSE integer

ExponentDigits(s, frac) ==
    IF frac + 1 <= Len(s) /\ s[frac + 1] \in {"+", "-"}
    THEN frac + 2 ELSE frac + 1

ExponentEnd(s, frac, digits) ==
    IF /\ frac <= Len(s) /\ s[frac] \in {"e", "E"}
       /\ digits <= Len(s) /\ s[digits] \in Digits
    THEN SkipIn(s, digits, Digits)
    ELSE frac

NumberEnd(s, frac) == ExponentEnd(s, frac, ExponentDigits(s, frac))

\* int for a literal without fraction and exponent, float for the others
NumberValue(s, i, first, integer, end) ==
    IF integer = first THEN ScanError
    ELSE IF end > integer THEN Scanned(JsonFloat(SubSeq(s, i, end - 1)), end)
    ELSE IF first = i THEN Scanned(JsonInt(IntOf(SubSeq(s, first, end - 1))), end)
    ELSE Scanned(JsonInt(0 - IntOf(SubSeq(s, first, end - 1))), end)

NumberFrom(s, i, first, integer) ==
    NumberValue(s, i, first, integer, NumberEnd(s, FractionEnd(s, integer)))

\* the match of NUMBER_RE at index i
ScanNumber(s, i) ==
    IF s[i] = "-" THEN NumberFrom(s, i, i + 1, IntegerEnd(s, i + 1))
    ELSE NumberFrom(s, i, i, IntegerEnd(s, i))

\* the constants of json.scanner.py_make_scanner
Literals ==
    { [text |-> <<"n", "u", "l", "l">>, value |-> Null],
      [text |-> <<"t", "r", "u", "e">>, value |-> JsonBool(TRUE)],
      [text |-> <<"f", "a", "l", "s", "e">>, value |-> JsonBool(FALSE)],
      [text |-> <<"N", "a", "N">>, value |-> JsonFloat(<<"N", "a", "N">>)],
      [text |-> <<"I", "n", "f", "i", "n", "i", "t", "y">>, value |-> JsonFloat(<<"I", "n", "f", "i", "n", "i", "t", "y">>)],
      [text |-> <<"-", "I", "n", "f", "i", "n", "i", "t", "y">>, value |-> JsonFloat(<<"-", "I", "n", "f", "i", "n", "i", "t", "y">>)] }

LiteralsAt(s, i) ==
    {l \in Literals : StartsWith(Slice(s, i, Len(s)), l.text)}

RECURSIVE ScanValue(_, _)
RECURSIVE ScanMembers(_, _, _)
RECURSIVE ScanItems(_, _, _)

\* json.decoder.JSONObject behind the first pair: s[i] opens the next key
ScanMembers(s, i, pairs) ==
    IF i > Len(s) \/ s[i] # "\"" THEN ScanError
    ELSE LET key == ScanString(s, i + 1, <<>>)
             colon == SkipWs(s, key.next)
             member == ScanValue(s, SkipWs(s, colon + 1))
             after == SkipWs(s, member.next)
             more == Append(pairs, [key |-> key.value, value |-> member.value])
         IN  IF ~key.ok THEN ScanError
             ELSE IF colon > Len(s) \/ s[colon] # ":" THEN ScanError
             ELSE IF ~member.ok \/ after > Len(s) THEN ScanError
             ELSE IF s[after] = "}" THEN Scanned(DictOf(more), after + 1)
             ELSE IF s[after] = ","
             THEN ScanMembers(s, SkipWs(s, after + 1), more)
             ELSE ScanError

\* json.decoder.JSONArray behind the first item: s[i] starts the next item
ScanItems(s, i, items) ==
    LET item == ScanValue(s, i)
        after == SkipWs(s, item.next)
        more == Append(items, item.value)
    IN  IF ~item.ok \/ after > Len(s) THEN ScanError
        ELSE IF s[after] = "]" THEN Scanned(JsonList(more), after + 1)
        ELSE IF s[after] = "," THEN ScanItems(s, SkipWs(s, after + 1), more)
        ELSE ScanError

\* json.scanner.py_make_scanner._scan_once at index i
ScanValue(s, i) ==
    IF i > Len(s) THEN ScanError
    ELSE IF s[i] = "\""
    THEN LET string == ScanString(s, i + 1, <<>>)
         IN  IF string.ok THEN Scanned(JsonText(string.value), string.next)
             ELSE ScanError
    ELSE IF s[i] = "{"
    THEN LET first == SkipWs(s, i + 1)
         IN  IF first <= Len(s) /\ s[first] = "}"
             THEN Scanned(DictOf(<<>>), first + 1)
             ELSE ScanMembers(s, first, <<>>)
    ELSE IF s[i] = "["
    THEN LET first == SkipWs(s, i + 1)
         IN  IF first <= Len(s) /\ s[first] = "]"
             THEN Scanned(JsonList(<<>>), first + 1)
             ELSE ScanItems(s, first, <<>>)
    ELSE IF LiteralsAt(s, i) # {} /\ s[i] \in {"n", "t", "f"}
    THEN LET l == CHOOSE l \in LiteralsAt(s, i) : TRUE
         IN  Scanned(l.value, i + Len(l.text))
    ELSE IF ScanNumber(s, i).ok THEN ScanNumber(s, i)
    ELSE IF LiteralsAt(s, i) # {}
    THEN LET l == CHOOSE l \in LiteralsAt(s, i) : TRUE
         IN  Scanned(l.value, i + Len(l.text))
    ELSE ScanError

\* json.loads: JSONDecoder.decode, the whole text is one value
JsonLoads(text) ==
    LET parsed == ScanValue(text, SkipWs(text, 1))
    IN  IF parsed.ok /\ SkipWs(text, parsed.next) = Len(text) + 1
        THEN [ok |-> TRUE, value |-> parsed.value]
        ELSE [ok |-> FALSE]

\* lines 170-171: the diagram text of the graph goes through the sanitizer
MermaidCode == <<"m", "e", "r", "m", "a", "i", "d", "_", "c", "o", "d", "e">>

SanitizedGraph(parsed) ==
    IF /\ MermaidCode \in DOMAIN parsed.members
       /\ parsed.members[MermaidCode].t = "text"
    THEN JsonDict([parsed.members EXCEPT
            ![MermaidCode] = JsonText(SanitizeMermaidCode(@.chars))])
    ELSE parsed

\* value[:400]
RawPreview(value) == Slice(value, 1, Min({Len(value), RAW_PREVIEW_LENGTH}))

\* the text cleaned and parsed without the test for an empty text
ParseGraphDataUnguarded(raw, label) ==
    LET normalized == CleanJsonResponse(raw)
        parsed == JsonLoads(normalized)
    IN  IF parsed.ok /\ parsed.value.t = "dict"
        THEN [status |-> "ok", graph |-> SanitizedGraph(parsed.value)]
        ELSE IF parsed.ok
        THEN [status |-> "error",
              message |-> label \o " data was not a JSON object.",
              raw_preview |-> RawPreview(normalized)]
        ELSE [status |-> "error",
              message |-> "Failed to parse " \o label \o " JSON.",
              raw_preview |-> RawPreview(raw)]

\* _parse_graph_data. None and "" both fail the test "if not raw_value":
\* the empty text stands for both.
ParseGraphData(raw, label) ==
    IF raw = <<>>
    THEN [status |-> "error", message |-> "No " \o label \o " data returned."]
    ELSE LET normalized == CleanJsonResponse(raw)
             parsed == JsonLoads(normalized)
         IN  IF parsed.ok /\ parsed.value.t = "dict"
             THEN [status |-> "ok", graph |-> SanitizedGraph(parsed.value)]
             ELSE IF parsed.ok
             THEN [status |-> "error",
                   message |-> label \o " data was not a JSON object.",
                   raw_preview |-> RawPreview(normalized)]
             ELSE [status |-> "error",
                   message |-> "Failed to parse " \o label \o " JSON.",
                   raw_preview |-> RawPreview(raw)]

\* the LLD graph parsed from the HLD text
CompletedStatusSharedDiagram(st, docs, url) ==
    [st EXCEPT !.status = "completed",
               !.result = [t |-> "obj",
                           chat_response |-> docs.documentation,
                           hld_graph |-> ParseGraphData(docs.hld, "HLD"),
                           lld_graph |-> ParseGraphData(docs.hld, "LLD"),
                           chat_summary |-> docs.chat_summary,
                           repo_name |-> RepoName(url),
                           repo_url |-> url]]

\* run_analysis lines 277-285
CompletedStatus(st, docs, url) ==
    [st EXCEPT !.status = "completed",
               !.result = [t |-> "obj",
                           chat_response |-> docs.documentation,
                           hld_graph |-> ParseGraphData(docs.hld, "HLD"),
                           lld_graph |-> ParseGraphData(docs.lld, "LLD"),
                           chat_summary |-> docs.chat_summary,
                           repo_name |-> RepoName(url),
                           repo_url |-> url]]

\* the except branch forgetting to set the state
ErrorStatusKeepsState(st, msg) ==
    [st EXCEPT !.error = Str(msg)]

\* the except branch forgetting to record the message
ErrorStatusNoMessage(st, msg) ==
    [st EXCEPT !.status = "error"]

\* run_analysis lines 302-305: the except branch
ErrorStatus(st, msg) ==
    [st EXCEPT !.status = "error", !.error = Str(msg)]

\* the timestamp set at the end of the try block, not in finally
StampedOnSuccess(st, now) ==
    IF st.status = "completed"
    THEN [k \in DOMAIN st \cup {"timestamp"} |->
            IF k = "timestamp" THEN now ELSE st[k]]
    ELSE st

\* run_analysis lines 308-309: the finally branch stamps the status
Stamped(st, now) ==
    [k \in DOMAIN st \cup {"timestamp"} |->
        IF k = "timestamp" THEN now ELSE st[k]]

\* the external calls the run has made so far, in order
Stage(w, name) == Append(worker[w].stages, name)

\* the except branch falling through to the statement behind the failing call
RaiseAndContinue(w, msg, dbOk, stage) ==
    /\ worker' = [worker EXCEPT
            ![w].status = ErrorStatus(@, msg),
            ![w].pc = IF stage = "clone" THEN "is_empty"
                      ELSE IF stage = "read" THEN "embed"
                      ELSE IF stage = "query" THEN "generate"
                      ELSE "open_terminal",
            ![w].stages = Stage(w, stage)]
    /\ analysis_logs' = UpdateDatabaseLog(analysis_logs, w, "failed", dbOk)

\* an exception escapes the try block at the call "stage": the except branch
\* (lines 302-306), then on to finally
Raise(w, msg, dbOk, stage) ==
    /\ worker' = [worker EXCEPT ![w].status = ErrorStatus(@, msg),
                                ![w].pc = "open_terminal",
                                ![w].stages = Stage(w, stage)]
    /\ analysis_logs' = UpdateDatabaseLog(analysis_logs, w, "failed", dbOk)

\* line 234 and line 310, open half
WorkerOpenStatus(w) ==
    /\ worker[w].pc \in {"open_processing", "open_terminal"}
    /\ statusFile' = UpdateStatusOpen(statusFile)
    /\ worker' = [worker EXCEPT ![w].pc =
                    IF @ = "open_processing" THEN "dump_processing"
                    ELSE "dump_terminal"]
    /\ UNCHANGED <<analysis_logs, req, clonePath, index,
                   history, nextHistId, clock, polled, webVars, textVars>>

\* lines 233-237: the processing status reaches the file, then the log row
WorkerDumpProcessing(w, dbOk) ==
    /\ worker[w].pc = "dump_processing"
    /\ statusFile' \in UpdateStatusDump(statusFile, worker[w].status)
    /\ analysis_logs' = UpdateDatabaseLog(analysis_logs, w, "processing", dbOk)
    /\ worker' = [worker EXCEPT ![w].pc = "clone",
                                ![w].written = Append(@, worker[w].status)]
    /\ UNCHANGED <<req, clonePath, index, history, nextHistId, clock, polled, webVars, textVars>>

\* the status a worker at the end of run_analysis is about to write
FinalStatus(w) == Stamped(worker[w].status, clock)

\* lines 308-310: the terminal status reaches the file and the process exits
WorkerDumpTerminal(w) ==
    /\ worker[w].pc = "dump_terminal"
    /\ statusFile' \in UpdateStatusDump(statusFile, FinalStatus(w))
    /\ worker' = [v \in DOMAIN worker \ {w} |-> worker[v]]
    /\ UNCHANGED <<analysis_logs, req, clonePath, index,
                   history, nextHistId, clock, polled, webVars, textVars>>

----------------------------------------------------------------------------
(* models.py / oauth_utils.py: the bounded repository history *)

UserEntries(hist, user_id) == {e \in hist : e.user_id = user_id}

\* order_by(last_accessed.asc()).first()
Oldest(entries) ==
    CHOOSE e \in entries : \A o \in entries : e.last_accessed <= o.last_accessed

\* the eviction threshold two too high
AtCapacityOffByTwo(count) == count >= HISTORY_LIMIT + 2

\* count >= 5
AtCapacity(count) == count >= HISTORY_LIMIT

\* the update branch leaving the stored HLD graph as it was
AddOrUpdateKeepsHld(hist, id, now, args) ==
    LET existing == {e \in hist : /\ e.user_id = args.user_id
                                  /\ e.repo_url = args.repo_url}
    IN  IF existing # {}
        THEN LET old == CHOOSE e \in existing : TRUE
                 new == [old EXCEPT !.documentation = args.documentation,
                                    !.lld_graph = args.lld_graph,
                                    !.chat_summary = args.chat_summary,
                                    !.last_accessed = now]
             IN  (hist \ {old}) \cup {new}
        ELSE LET new_history ==
                     [id |-> id, user_id |-> args.user_id,
                      repo_url |-> args.repo_url, repo_name |-> args.repo_name,
                      documentation |-> args.documentation,
                      hld_graph |-> args.hld_graph, lld_graph |-> args.lld_graph,
                      chat_summary |-> args.chat_summary,
                      last_accessed |-> now, created_at |-> now]
                 added == hist \cup {new_history}
                 count == Cardinality(UserEntries(added, args.user_id))
             IN  IF AtCapacity(count)
                 THEN added \ {Oldest(UserEntries(added, args.user_id))}
                 ELSE added

\* RepositoryHistory.add_or_update, args being its keyword arguments. The
\* count query autoflushes the session, so the row added just before it is
\* counted and is a candidate for deletion.
AddOrUpdate(hist, id, now, args) ==
    LET existing == {e \in hist : /\ e.user_id = args.user_id
                                  /\ e.repo_url = args.repo_url}
    IN  IF existing # {}
        THEN LET old == CHOOSE e \in existing : TRUE
                 new == [old EXCEPT !.documentation = args.documentation,
                                    !.hld_graph = args.hld_graph,
                                    !.lld_graph = args.lld_graph,
                                    !.chat_summary = args.chat_summary,
                                    !.last_accessed = now]
             IN  (hist \ {old}) \cup {new}
        ELSE LET new_history ==
                     [id |-> id, user_id |-> args.user_id,
                      repo_url |-> args.repo_url, repo_name |-> args.repo_name,
                      documentation |-> args.documentation,
                      hld_graph |-> args.hld_graph, lld_graph |-> args.lld_graph,
                      chat_summary |-> args.chat_summary,
                      last_accessed |-> now, created_at |-> now]
                 added == hist \cup {new_history}
                 count == Cardinality(UserEntries(added, args.user_id))
             IN  IF AtCapacity(count)
                 THEN added \ {Oldest(UserEntries(added, args.user_id))}
                 ELSE added

\* json.dumps of a graph dict
JsonDumps(d) == [t |-> "json", of |-> d]

\* oauth_utils.save_repository_to_history, args being its keyword arguments
SaveRepositoryToHistory(hist, id, now, args) ==
    AddOrUpdate(hist, id, now,
        [args EXCEPT !.hld_graph = JsonDumps(@), !.lld_graph = JsonDumps(@)])

\* the keyword arguments _save_to_history passes for a completed run
HistoryArgs(user_id, url, docs) ==
    [user_id |-> user_id, repo_url |-> url, repo_name |-> RepoName(url),
     documentation |-> docs.documentation,
     hld_graph |-> ParseGraphData(docs.hld, "HLD"),
     lld_graph |-> ParseGraphData(docs.lld, "LLD"),
     chat_summary |-> docs.chat_summary]

\* whether the upsert inserts a row (and so consumes a primary key)
Inserts(hist, user_id, repo_url) ==
    \A e \in hist : ~(e.user_id = user_id /\ e.repo_url = repo_url)

----------------------------------------------------------------------------
(* oauth_utils.py: the Redis cache and the history read path *)

\* json.loads, the inverse of json.dumps
JsonParse(j) == j.of

\* datetime.isoformat()
IsoFormat(time) == [t |-> "iso", of |-> time]

\* get_cached_history without its except branch: a failed Redis call still
\* yields what the key holds
GetCachedHistoryIgnoresFailure(c, client, user_id, ok) ==
    IF c[user_id] = NoCache
    THEN [some |-> FALSE]
    ELSE [some |-> TRUE, data |-> JsonParse(c[user_id])]

\* get_cached_history: the cached listing, None without a client, on a
\* Redis error (ok = FALSE) or on an absent key
GetCachedHistory(c, client, user_id, ok) ==
    IF client = NoClient \/ ~ok \/ c[user_id] = NoCache
    THEN [some |-> FALSE]
    ELSE [some |-> TRUE, data |-> JsonParse(c[user_id])]

\* set_cached_history: setex of the listing
SetCachedHistory(c, client, user_id, history_data, ok) ==
    IF client = NoClient \/ ~ok THEN c
    ELSE [c EXCEPT ![user_id] = JsonDumps(history_data)]

\* invalidate_history_cache: delete of the key
InvalidateHistoryCache(c, client, user_id, ok) ==
    IF client = NoClient \/ ~ok THEN c
    ELSE [c EXCEPT ![user_id] = NoCache]

RECURSIVE OrderByLastAccessedDesc(_)
\* order_by(RepositoryHistory.last_accessed.desc())
OrderByLastAccessedDesc(entries) ==
    IF entries = {} THEN <<>>
    ELSE LET first == CHOOSE e \in entries :
                        \A o \in entries : o.last_accessed <= e.last_accessed
         IN  <<first>> \o OrderByLastAccessedDesc(entries \ {first})

\* User.get_recent_repositories(limit)
GetRecentRepositories(hist, user_id, limit) ==
    LET all == OrderByLastAccessedDesc(UserEntries(hist, user_id))
    IN  SubSeq(all, 1, IF Len(all) < limit THEN Len(all) ELSE limit)

\* one element of history_data; the worker always passes the three texts,
\* so the columns are never None
Summary(repo) ==
    [id |-> repo.id, repo_name |-> repo.repo_name, repo_url |-> repo.repo_url,
     last_accessed |-> IsoFormat(repo.last_accessed),
     has_documentation |-> TRUE, has_hld |-> TRUE, has_lld |-> TRUE]

\* the listing computed from the database
HistoryData(hist, user_id) ==
    LET repositories == GetRecentRepositories(hist, user_id, HISTORY_LIMIT)
    IN  [i \in DOMAIN repositories |-> Summary(repositories[i])]

\* get_user_repository_history(user_id, use_cache=True): the listing
\* returned and the cache afterwards
GetUserRepositoryHistory(c, client, hist, user_id, getOk, setOk) ==
    LET cached == GetCachedHistory(c, client, user_id, getOk)
    IN  IF cached.some /\ cached.data # <<>>
        THEN [data |-> cached.data, cache |-> c]
        ELSE LET history_data == HistoryData(hist, user_id)
             IN  [data |-> history_data,
                  cache |-> SetCachedHistory(c, client, user_id, history_data, setOk)]

\* the row looked up by primary key alone
HistoryRowsById(hist, user_id, repo_id) ==
    {e \in hist : e.id = repo_id}

\* RepositoryHistory.query.filter_by(user_id=user_id, id=repo_id)
HistoryRows(hist, user_id, repo_id) ==
    {e \in hist : e.user_id = user_id /\ e.id = repo_id}

\* get_repository_details: the full entry, None when no row matches
GetRepositoryDetails(hist, user_id, repo_id) ==
    LET rows == HistoryRows(hist, user_id, repo_id)
    IN  IF rows = {} THEN Null
        ELSE LET row == CHOOSE e \in rows : TRUE
             IN  [t |-> "obj",
                  repo_name |-> row.repo_name, repo_url |-> row.repo_url,
                  documentation |-> row.documentation,
                  hld_graph |-> JsonParse(row.hld_graph),
                  lld_graph |-> JsonParse(row.lld_graph),
                  last_accessed |-> IsoFormat(row.last_accessed)]

\* app.py _api_get_history
ApiGetHistory(client, getOk, setOk) ==
    /\ IF client = Anonymous
       THEN /\ fetched' = [op |-> "history", client |-> client, code |-> 401]
            /\ UNCHANGED cache
       ELSE LET got == GetUserRepositoryHistory(cache, redis_client, history,
                                                client, getOk, setOk)
            IN  /\ fetched' = [op |-> "history", client |-> client,
                               code |-> 200, body |-> got.data]
                /\ cache' = got.cache
    /\ UNCHANGED <<statusFile, analysis_logs, req, worker, clonePath, index,
                   history, nextHistId, clock, polled, redis_client, textVars>>

\* jsonify({'error': 'Repository not found'})
NotFound == [t |-> "obj", error |-> "Repository not found"]

\* the details handler stamping the entry it reads, as a cache that counts
\* reads as accesses would
ApiGetRepositoryDetailsTouches(client, repo_id) ==
    /\ client # Anonymous
    /\ HistoryRows(history, client, repo_id) # {}
    /\ fetched' = [op |-> "details", client |-> client, repo_id |-> repo_id,
                   code |-> 200,
                   body |-> GetRepositoryDetails(history, client, repo_id)]
    /\ history' = {IF e \in HistoryRows(history, client, repo_id)
                   THEN [e EXCEPT !.last_accessed = clock] ELSE e : e \in history}
    /\ UNCHANGED <<statusFile, analysis_logs, req, worker, clonePath, index,
                   nextHistId, clock, polled, cache, redis_client, textVars>>

\* app.py _api_get_repository_details
ApiGetRepositoryDetails(client, repo_id) ==
    /\ IF client = Anonymous
       THEN fetched' = [op |-> "details", client |-> client,
                        repo_id |-> repo_id, code |-> 401]
       ELSE LET details == GetRepositoryDetails(history, client, repo_id)
            IN  IF details = Null
                THEN fetched' = [op |-> "details", client |-> client,
                                 repo_id |-> repo_id, code |-> 404,
                                 body |-> NotFound]
                ELSE fetched' = [op |-> "details", client |-> client,
                                 repo_id |-> repo_id, code |-> 200,
                                 body |-> details]
    /\ UNCHANGED <<statusFile, analysis_logs, req, worker, clonePath, index,
                   history, nextHistId, clock, polled, cache, redis_client,
                   textVars>>

\* the expiry set by setex passes
CacheExpire(user_id) ==
    /\ cache[user_id] # NoCache
    /\ cache' = [cache EXCEPT ![user_id] = NoCache]
    /\ UNCHANGED <<statusFile, analysis_logs, req, worker, clonePath, index,
                   history, nextHistId, clock, polled, redis_client, fetched,
                   textVars>>

----------------------------------------------------------------------------
(* worker.py: run_analysis, the pipeline stages *)

\* files with an allowed extension in the checked-out repository
ReadRepositoryFiles(checkout) ==
    IF checkout = NoUrl \/ RepoName(checkout) = "e" THEN {} ELSE {checkout}

\* what a diagram generation returns: nothing, prose, a JSON array, a JSON
\* object
EmptyText == <<>>
ProseText == <<"n", "o", "t", " ", "j", "s", "o", "n">>
ListText == <<"[", "]">>
DictText == <<"{", "}">>

RawGraphs == {EmptyText, ProseText, ListText, DictText}

\* every combination of outcomes of the four generation calls
AllDocs ==
    [documentation : {"", "# Docs"}, hld : RawGraphs, lld : RawGraphs,
     chat_summary : {"", "summary"}]

\* the combination drawn while requests and workers interleave: all succeed
SomeDocs ==
    {d \in AllDocs : /\ d.lld = DictText
                     /\ d.hld = DictText
                     /\ d.documentation = "# Docs"
                     /\ d.chat_summary = "summary"}

\* the return value of clone_repository ignored
WorkerCloneIgnoresFailure(w, cloned, dbOk) ==
    /\ worker[w].pc = "clone"
    /\ clonePath' = IF clonePath # NoUrl THEN clonePath
                    ELSE IF cloned THEN worker[w].repo_url ELSE NoUrl
    /\ worker' = [worker EXCEPT ![w].pc = "is_empty",
                                ![w].stages = Stage(w, "clone")]
    /\ UNCHANGED <<statusFile, analysis_logs, req, index,
                   history, nextHistId, clock, polled, webVars, textVars>>

\* lines 239-243: RepositoryService.clone_repository, skipped when the
\* checkout directory exists; GitCommandError gives False
WorkerClone(w, cloned, dbOk) ==
    /\ worker[w].pc = "clone"
    /\ IF clonePath # NoUrl \/ cloned
       THEN /\ clonePath' = IF clonePath # NoUrl THEN clonePath
                            ELSE worker[w].repo_url
            /\ worker' = [worker EXCEPT ![w].pc = "is_empty",
                                        ![w].stages = Stage(w, "clone")]
            /\ UNCHANGED analysis_logs
       ELSE /\ Raise(w, MsgClone, dbOk, "clone")
            /\ UNCHANGED clonePath
    /\ UNCHANGED <<statusFile, req, index, history, nextHistId, clock, polled, webVars, textVars>>

\* the empty file list passed on to generate_embeddings
WorkerOpenIndexSkipsEmptyCheck(w, chromaOk, dbOk) ==
    /\ worker[w].pc = "is_empty"
    /\ IF ~chromaOk
       THEN Raise(w, MsgVector, dbOk, "open")
       ELSE IF index[RepoName(worker[w].repo_url)] # {}
       THEN /\ worker' = [worker EXCEPT ![w].pc = "query",
                                        ![w].stages = Stage(w, "is_empty")]
            /\ UNCHANGED analysis_logs
       ELSE /\ worker' = [worker EXCEPT
                    ![w].pc = "embed",
                    ![w].file_contents = ReadRepositoryFiles(clonePath),
                    ![w].stages = Stage(w, "read")]
            /\ UNCHANGED analysis_logs
    /\ UNCHANGED <<statusFile, req, clonePath, index,
                   history, nextHistId, clock, polled, webVars, textVars>>

\* the files read and embedded again whatever the collection holds
WorkerOpenIndexAlwaysReads(w, chromaOk, dbOk) ==
    /\ worker[w].pc = "is_empty"
    /\ IF ~chromaOk
       THEN Raise(w, MsgVector, dbOk, "open")
       ELSE LET file_contents == ReadRepositoryFiles(clonePath)
            IN  IF file_contents = {}
                THEN Raise(w, MsgNoFiles, dbOk, "read")
                ELSE /\ worker' = [worker EXCEPT
                            ![w].pc = "embed",
                            ![w].file_contents = file_contents,
                            ![w].stages = Stage(w, "read")]
                     /\ UNCHANGED analysis_logs
    /\ UNCHANGED <<statusFile, req, clonePath, index,
                   history, nextHistId, clock, polled, webVars, textVars>>

\* lines 245-258: open the collection, and read the files when it is empty
WorkerOpenIndex(w, chromaOk, dbOk) ==
    /\ worker[w].pc = "is_empty"
    /\ IF ~chromaOk
       THEN Raise(w, MsgVector, dbOk, "open")
       ELSE IF index[RepoName(worker[w].repo_url)] # {}
       THEN /\ worker' = [worker EXCEPT ![w].pc = "query",
                                        ![w].stages = Stage(w, "is_empty")]
            /\ UNCHANGED analysis_logs
       ELSE LET file_contents == ReadRepositoryFiles(clonePath)
            IN  IF file_contents = {}
                THEN Raise(w, MsgNoFiles, dbOk, "read")
                ELSE /\ worker' = [worker EXCEPT
                            ![w].pc = "embed",
                            ![w].file_contents = file_contents,
                            ![w].stages = Stage(w, "read")]
                     /\ UNCHANGED analysis_logs
    /\ UNCHANGED <<statusFile, req, clonePath, index,
                   history, nextHistId, clock, polled, webVars, textVars>>

\* line 260: generate_embeddings; a file whose embedding fails is skipped
WorkerEmbed(w, stored) ==
    /\ worker[w].pc = "embed"
    /\ index' = [index EXCEPT ![RepoName(worker[w].repo_url)] =
                    IF stored THEN @ \cup worker[w].file_contents ELSE @]
    /\ worker' = [worker EXCEPT ![w].pc = "query",
                                ![w].stages = Stage(w, "embed")]
    /\ UNCHANGED <<statusFile, analysis_logs, req, clonePath,
                   history, nextHistId, clock, polled, webVars, textVars>>

\* query_similar_documents: the retrieved documents, "" on any error
QuerySimilarDocuments(collection, queryOk) ==
    IF queryOk /\ collection # {} THEN "context" ELSE ""

\* the query repeated until it returns a context
WorkerQueryRetries(w, queryOk, dbOk) ==
    /\ worker[w].pc = "query"
    /\ LET context == QuerySimilarDocuments(index[RepoName(worker[w].repo_url)], queryOk)
       IN  IF context = ""
           THEN UNCHANGED <<worker, analysis_logs>>
           ELSE /\ worker' = [worker EXCEPT ![w].pc = "generate",
                                            ![w].context = context,
                                            ![w].stages = Stage(w, "query")]
                /\ UNCHANGED analysis_logs
    /\ UNCHANGED <<statusFile, req, clonePath, index,
                   history, nextHistId, clock, polled, webVars, textVars>>

\* lines 262-265
WorkerQuery(w, queryOk, dbOk) ==
    /\ worker[w].pc = "query"
    /\ LET context == QuerySimilarDocuments(index[RepoName(worker[w].repo_url)], queryOk)
       IN  IF context = ""
           THEN Raise(w, MsgContext, dbOk, "query")
           ELSE /\ worker' = [worker EXCEPT ![w].pc = "generate",
                                            ![w].context = context,
                                            ![w].stages = Stage(w, "query")]
                /\ UNCHANGED analysis_logs
    /\ UNCHANGED <<statusFile, req, clonePath, index,
                   history, nextHistId, clock, polled, webVars, textVars>>

\* lines 267-287: the four generation calls, parsing, the completed status
WorkerGenerate(w, geminiOk, docs, dbOk) ==
    /\ worker[w].pc = "generate"
    /\ IF ~geminiOk
       THEN Raise(w, MsgGemini, dbOk, "gemini")
       ELSE /\ worker' = [worker EXCEPT
                    ![w].docs = docs,
                    ![w].status = CompletedStatus(@, docs, worker[w].repo_url),
                    ![w].pc = "save",
                    ![w].stages = Stage(w, "generate")]
            /\ analysis_logs' = UpdateDatabaseLog(analysis_logs, w, "completed", dbOk)
    /\ UNCHANGED <<statusFile, req, clonePath, index,
                   history, nextHistId, clock, polled, webVars, textVars>>

\* the history saved for every log row, with or without a user
WorkerSaveToHistoryAnyRow(w, dbOk) ==
    /\ worker[w].pc = "save"
    /\ LET log_entry == analysis_logs[w]
       IN  IF dbOk
           THEN /\ history' = SaveRepositoryToHistory(history, nextHistId, clock,
                        HistoryArgs(log_entry.user_id, worker[w].repo_url,
                                    worker[w].docs))
                /\ nextHistId' = IF Inserts(history, log_entry.user_id, worker[w].repo_url)
                                 THEN nextHistId + 1 ELSE nextHistId
                /\ clock' = clock + 1
                /\ cache' = InvalidateHistoryCache(cache, WorkerRedisClient,
                                                   log_entry.user_id, TRUE)
                /\ worker' = [worker EXCEPT ![w].pc = "open_terminal",
                                            ![w].stages = Stage(w, "save")]
           ELSE /\ worker' = [worker EXCEPT ![w].pc = "open_terminal"]
                /\ UNCHANGED <<history, nextHistId, clock, cache>>
    /\ UNCHANGED <<statusFile, analysis_logs, req, clonePath, index, polled,
                   redis_client, fetched, textVars>>

\* lines 290-299 and _save_to_history: only rows with a user_id are saved;
\* any exception is logged and swallowed
WorkerSaveToHistory(w, dbOk) ==
    /\ worker[w].pc = "save"
    /\ LET log_entry == analysis_logs[w]
       IN  IF dbOk /\ log_entry.user_id # NoId
           THEN /\ history' = SaveRepositoryToHistory(history, nextHistId, clock,
                        HistoryArgs(log_entry.user_id, worker[w].repo_url,
                                    worker[w].docs))
                /\ nextHistId' = IF Inserts(history, log_entry.user_id, worker[w].repo_url)
                                 THEN nextHistId + 1 ELSE nextHistId
                /\ clock' = clock + 1
                /\ cache' = InvalidateHistoryCache(cache, WorkerRedisClient,
                                                   log_entry.user_id, TRUE)
                /\ worker' = [worker EXCEPT ![w].pc = "open_terminal",
                                            ![w].stages = Stage(w, "save")]
           ELSE /\ worker' = [worker EXCEPT ![w].pc = "open_terminal"]
                /\ UNCHANGED <<history, nextHistId, clock, cache>>
    /\ UNCHANGED <<statusFile, analysis_logs, req, clonePath, index, polled,
                   redis_client, fetched, textVars>>

----------------------------------------------------------------------------
(* app.py: ArchiMindApplication._api_status *)

StatusResponse(f) ==
    LET loaded == JsonLoad(f)
    IN  IF loaded.ok THEN loaded.value ELSE IdleDefault

\* the handler writing the default it answers into an unreadable file
ApiStatusRepairsFile ==
    /\ polled' = StatusResponse(statusFile)
    /\ statusFile' = IF JsonLoad(statusFile).ok THEN statusFile
                     ELSE JsonFile(IdleDefault)
    /\ UNCHANGED <<analysis_logs, req, worker, clonePath, index,
                   history, nextHistId, clock, webVars, textVars>>

\* lines 225-232: the status file's content, the idle default when the
\* file is missing or is not JSON
ApiStatus ==
    /\ polled' = StatusResponse(statusFile)
    /\ UNCHANGED <<statusFile, analysis_logs, req, worker, clonePath, index,
                   history, nextHistId, clock, webVars, textVars>>

----------------------------------------------------------------------------
(* Specifications *)

Requests == 1..MaxReq
Workers == DOMAIN worker

\* what the outside world may do: every outcome of every external call
EnvAll ==
    [urls |-> Urls \cup {NoUrl}, clients |-> Clients,
     clone |-> BOOLEAN, chroma |-> BOOLEAN, embed |-> BOOLEAN,
     query |-> BOOLEAN, gemini |-> BOOLEAN, docs |-> AllDocs,
     logdb |-> BOOLEAN, histdb |-> BOOLEAN]

\* the outcomes drawn while several requests and workers interleave
EnvSome ==
    [urls |-> {<<"a", "x">>, NoUrl}, clients |-> Clients,
     clone |-> BOOLEAN, chroma |-> {TRUE}, embed |-> {TRUE},
     query |-> {TRUE}, gemini |-> {TRUE}, docs |-> SomeDocs,
     logdb |-> {TRUE}, histdb |-> BOOLEAN]

ApiAnalyze(env, slots) ==
    \E r \in slots :
        \/ \E url \in env.urls, client \in env.clients :
                ApiAnalyzeBegin(r, url, client)
        \/ ApiAnalyzeReadStatus(r)
        \/ ApiAnalyzeAddLog(r)
        \/ ApiAnalyzePopen(r)

RunAnalysis(env) ==
    \E w \in Workers :
        \/ WorkerOpenStatus(w)
        \/ \E dbOk \in env.logdb : WorkerDumpProcessing(w, dbOk)
        \/ \E cloned \in env.clone, dbOk \in env.logdb : WorkerClone(w, cloned, dbOk)
        \/ \E chromaOk \in env.chroma, dbOk \in env.logdb :
                WorkerOpenIndex(w, chromaOk, dbOk)
        \/ \E stored \in env.embed : WorkerEmbed(w, stored)
        \/ \E queryOk \in env.query, dbOk \in env.logdb : WorkerQuery(w, queryOk, dbOk)
        \/ \E geminiOk \in env.gemini, docs \in env.docs, dbOk \in env.logdb :
                WorkerGenerate(w, geminiOk, docs, dbOk)
        \/ \E dbOk \in env.histdb : WorkerSaveToHistory(w, dbOk)
        \/ WorkerDumpTerminal(w)

\* requests and workers interleaving freely
Next ==
    \/ ApiAnalyze(EnvSome, Requests)
    \/ RunAnalysis(EnvSome)

Spec == Init /\ [][Next]_vars

\* the same, with a client polling /api/status
NextPoll ==
    \/ Next
    \/ ApiStatus

SpecPoll == Init /\ [][NextPoll]_vars

\* the polls of a deployment whose status file may be missing at the start
\* (removed from the data directory, or main.py served without its __main__
\* block), while two requests and their workers write it
StatusSlots == {1, 2}

InitStatus ==
    /\ InitPipeline
    /\ analysis_logs = <<>>
    /\ statusFile \in {MissingFile, JsonFile(IdleStatus)}

NextStatus ==
    \/ ApiAnalyze(EnvSome, StatusSlots)
    \/ RunAnalysis(EnvSome)
    \/ ApiStatus

SpecStatus == InitStatus /\ [][NextStatus]_vars

\* save_repository_to_history called directly, one call after another, on a
\* history that earlier inserts of "u1" have filled
HistUrls == {<<"a", ToString(i)>> : i \in 1..MaxRepos}
HistDocs ==
    {d \in AllDocs : /\ d.lld = DictText
                     /\ d.hld \in {EmptyText, DictText}
                     /\ d.documentation = "# Docs"
                     /\ d.chat_summary = "summary"}

PriorEntry(i) ==
    [id |-> i, user_id |-> "u1", repo_url |-> <<"a", ToString(i)>>,
     repo_name |-> ToString(i), documentation |-> "# Docs",
     hld_graph |-> JsonDumps(ParseGraphData(DictText, "HLD")),
     lld_graph |-> JsonDumps(ParseGraphData(DictText, "LLD")),
     chat_summary |-> "summary", last_accessed |-> i, created_at |-> i]

InitHistory ==
    /\ req = [r \in 1..MaxReq |-> NewRequest]
    /\ worker = <<>>
    /\ clonePath = NoUrl
    /\ index = [c \in Collections |-> {}]
    /\ polled = NoResponse
    /\ cache = [u \in HistUsers |-> NoCache]
    /\ redis_client = Connected
    /\ fetched = NoFetch
    /\ mermaid_code = NoCode
    /\ raw_value = NoRaw
    /\ analysis_logs = <<>>
    /\ statusFile = JsonFile(IdleStatus)
    /\ \E k \in 0..(HISTORY_LIMIT - 1) :
            /\ history = {PriorEntry(i) : i \in 1..k}
            /\ nextHistId = k + 1
    /\ clock = HISTORY_LIMIT

HistoryUpsert(user_id, url, docs) ==
    /\ clock < HISTORY_LIMIT + MaxUpserts
    /\ clock' = clock + 1
    /\ nextHistId' = IF Inserts(history, user_id, url)
                     THEN nextHistId + 1 ELSE nextHistId
    /\ history' = SaveRepositoryToHistory(history, nextHistId, clock,
                        HistoryArgs(user_id, url, docs))
    /\ cache' = InvalidateHistoryCache(cache, WorkerRedisClient, user_id, TRUE)
    /\ UNCHANGED <<statusFile, analysis_logs, req, worker, clonePath, index,
                   polled, redis_client, fetched, textVars>>

NextHistory ==
    \E user_id \in HistUsers, url \in HistUrls, docs \in HistDocs :
        HistoryUpsert(user_id, url, docs)

SpecHistory == InitHistory /\ [][NextHistory]_vars

\* several worker processes inside _save_to_history at once (the check of
\* _api_analyze lets a second worker start beside a running one), each in a
\* transaction of its own on the PostgreSQL default, READ COMMITTED: a
\* statement sees the committed rows and the rows of its own transaction.
\* A saver is at "query" before add_or_update, at "update" or "add" behind
\* the query for the existing row, at "commit" behind the count.
Savers == 1..MaxSavers

\* each saver saves the repository a/1 or a repository of its own
SharedUrl == <<"a", "1">>
OwnUrl(w) == <<"a", ToString(HISTORY_LIMIT - 1 + w)>>

\* a run whose HLD text came back empty
SaverDocs == CHOOSE docs \in HistDocs : docs.hld = EmptyText

NewSaver(url) ==
    [pc |-> "query", user_id |-> "u1", repo_url |-> url, docs |-> SaverDocs,
     existing |-> 0, new_history |-> {}, oldest |-> 0]

InitSavers ==
    /\ req = [r \in 1..MaxReq |-> NewRequest]
    /\ clonePath = NoUrl
    /\ index = [c \in Collections |-> {}]
    /\ polled = NoResponse
    /\ cache = [u \in HistUsers |-> NoCache]
    /\ redis_client = Connected
    /\ fetched = NoFetch
    /\ mermaid_code = NoCode
    /\ raw_value = NoRaw
    /\ analysis_logs = <<>>
    /\ statusFile = JsonFile(IdleStatus)
    /\ \E k \in 0..(HISTORY_LIMIT - 1) :
            /\ history = {PriorEntry(i) : i \in 1..k}
            /\ nextHistId = k + 1
    /\ clock = HISTORY_LIMIT
    /\ \E own \in SUBSET Savers :
            worker = [w \in Savers |->
                        NewSaver(IF w \in own THEN OwnUrl(w) ELSE SharedUrl)]

\* the keyword arguments add_or_update receives from
\* save_repository_to_history
SaverArgs(w) ==
    LET args == HistoryArgs(worker[w].user_id, worker[w].repo_url, worker[w].docs)
    IN  [args EXCEPT !.hld_graph = JsonDumps(@), !.lld_graph = JsonDumps(@)]

\* lines 84-88: the attributes set on the existing row
UpdatedRow(existing, args, now) ==
    [existing EXCEPT !.documentation = args.documentation,
                     !.hld_graph = args.hld_graph,
                     !.lld_graph = args.lld_graph,
                     !.chat_summary = args.chat_summary,
                     !.last_accessed = now]

\* lines 91-99: the new row
NewRow(id, args, now) ==
    [id |-> id, user_id |-> args.user_id,
     repo_url |-> args.repo_url, repo_name |-> args.repo_name,
     documentation |-> args.documentation,
     hld_graph |-> args.hld_graph, lld_graph |-> args.lld_graph,
     chat_summary |-> args.chat_summary,
     last_accessed |-> now, created_at |-> now]

\* lines 102-108: the id of the row to delete among the rows the count
\* query sees, 0 for none
MarkedOldest(visible) ==
    IF AtCapacity(Cardinality(visible)) THEN Oldest(visible).id ELSE 0

\* models.py line 81: filter_by(user_id, repo_url).first(), any of the rows
\* that match
SaverQuery(w) ==
    /\ worker[w].pc = "query"
    /\ LET matching == {e \in history : /\ e.user_id = worker[w].user_id
                                        /\ e.repo_url = worker[w].repo_url}
       IN  IF matching = {}
           THEN worker' = [worker EXCEPT ![w].pc = "add"]
           ELSE \E e \in matching :
                    worker' = [worker EXCEPT ![w].pc = "update",
                                             ![w].existing = e.id]
    /\ UNCHANGED <<statusFile, analysis_logs, req, clonePath, index, history,
                   nextHistId, clock, polled, webVars, textVars>>

\* lines 83-89 and 112: the row found is overwritten at the commit; an
\* UPDATE that matches no row, the row deleted since the query, raises
\* StaleDataError, which _save_to_history logs
SaverUpdate(w) ==
    /\ worker[w].pc = "update"
    /\ LET rows == {e \in history : e.id = worker[w].existing}
       IN  history' = (history \ rows)
                \cup {UpdatedRow(e, SaverArgs(w), clock) : e \in rows}
    /\ clock' = clock + 1
    /\ cache' = InvalidateHistoryCache(cache, WorkerRedisClient,
                                       worker[w].user_id, TRUE)
    /\ worker' = [worker EXCEPT ![w].pc = "done"]
    /\ UNCHANGED <<statusFile, analysis_logs, req, clonePath, index,
                   nextHistId, polled, redis_client, fetched, textVars>>

\* the count and the oldest row taken over the rows of every owner
SaverAddCountsAllOwners(w) ==
    /\ worker[w].pc = "add"
    /\ worker' = [worker EXCEPT
            ![w].pc = "commit",
            ![w].new_history = {NewRow(nextHistId, SaverArgs(w), clock)},
            ![w].oldest = MarkedOldest(
                history \cup {NewRow(nextHistId, SaverArgs(w), clock)})]
    /\ nextHistId' = nextHistId + 1
    /\ clock' = clock + 1
    /\ UNCHANGED <<statusFile, analysis_logs, req, clonePath, index, history,
                   polled, webVars, textVars>>

\* lines 91-108: the new row is flushed by the count query, which counts it
\* with the committed rows; at 5 or more the oldest of them is marked
SaverAdd(w) ==
    /\ worker[w].pc = "add"
    /\ worker' = [worker EXCEPT
            ![w].pc = "commit",
            ![w].new_history = {NewRow(nextHistId, SaverArgs(w), clock)},
            ![w].oldest = MarkedOldest(UserEntries(
                history \cup {NewRow(nextHistId, SaverArgs(w), clock)},
                worker[w].user_id))]
    /\ nextHistId' = nextHistId + 1
    /\ clock' = clock + 1
    /\ UNCHANGED <<statusFile, analysis_logs, req, clonePath, index, history,
                   polled, webVars, textVars>>

\* line 112: the commit inserts the new row and deletes the marked one; a
\* DELETE that matches no row is a warning only
SaverCommit(w) ==
    /\ worker[w].pc = "commit"
    /\ history' = {e \in history : e.id # worker[w].oldest}
                        \cup worker[w].new_history
    /\ cache' = InvalidateHistoryCache(cache, WorkerRedisClient,
                                       worker[w].user_id, TRUE)
    /\ worker' = [worker EXCEPT ![w].pc = "done"]
    /\ UNCHANGED <<statusFile, analysis_logs, req, clonePath, index,
                   nextHistId, clock, polled, redis_client, fetched, textVars>>

NextSavers ==
    \/ \E w \in DOMAIN worker : SaverQuery(w)
    \/ \E w \in DOMAIN worker : SaverUpdate(w)
    \/ \E w \in DOMAIN worker : SaverAdd(w)
    \/ \E w \in DOMAIN worker : SaverCommit(w)

SpecSavers == InitSavers /\ [][NextSavers]_vars

\* savers of different owners at once: saver w saves for the owner
\* SaverOwner(w), on a table that holds k rows, the j oldest of them owned
\* by "u2" and the others by "u1", and a cache that may hold a listing
SaverOwner(w) == IF w % 2 = 1 THEN "u1" ELSE "u2"

OwnedEntry(i, j) ==
    [PriorEntry(i) EXCEPT !.user_id = IF i <= j THEN "u2" ELSE "u1"]

InitOwners ==
    /\ req = [r \in 1..MaxReq |-> NewRequest]
    /\ clonePath = NoUrl
    /\ index = [c \in Collections |-> {}]
    /\ polled = NoResponse
    /\ redis_client = Connected
    /\ fetched = NoFetch
    /\ mermaid_code = NoCode
    /\ raw_value = NoRaw
    /\ analysis_logs = <<>>
    /\ statusFile = JsonFile(IdleStatus)
    /\ \E k \in 0..HISTORY_LIMIT, j \in 0..HISTORY_LIMIT :
            /\ j <= k
            /\ k - j < HISTORY_LIMIT
            /\ history = {OwnedEntry(i, j) : i \in 1..k}
            /\ nextHistId = k + 1
    /\ cache \in {[u \in HistUsers |-> NoCache],
                  [u \in HistUsers |-> JsonDumps(HistoryData(history, u))]}
    /\ clock = HISTORY_LIMIT + 1
    /\ \E own \in SUBSET Savers :
            worker = [w \in Savers |->
                        [NewSaver(IF w \in own THEN OwnUrl(w) ELSE SharedUrl)
                            EXCEPT !.user_id = SaverOwner(w)]]

SpecOwners == InitOwners /\ [][NextSavers]_vars

\* add_or_update on timestamps of finite resolution: an upsert may carry the
\* time of the one before it, and rows that tie on last_accessed come out of
\* order_by(last_accessed.asc()).first() in an order the database picks
Oldests(entries) ==
    {e \in entries : \A o \in entries : e.last_accessed <= o.last_accessed}

\* the tables add_or_update may leave behind
AddOrUpdateOutcomes(hist, id, now, args) ==
    IF Inserts(hist, args.user_id, args.repo_url)
    THEN IF AtCapacity(Cardinality(UserEntries(hist, args.user_id)) + 1)
         THEN {(hist \cup {NewRow(id, args, now)}) \ {oldest} :
                    oldest \in Oldests(UserEntries(hist, args.user_id)
                                            \cup {NewRow(id, args, now)})}
         ELSE {hist \cup {NewRow(id, args, now)}}
    ELSE {(hist \ {existing}) \cup {UpdatedRow(existing, args, now)} :
                existing \in {e \in hist : /\ e.user_id = args.user_id
                                           /\ e.repo_url = args.repo_url}}

\* an entry written at the time HISTORY_LIMIT, as all entries of a table
\* filled within one tick of the clock are
TiedEntry(i) ==
    [PriorEntry(i) EXCEPT !.last_accessed = HISTORY_LIMIT,
                          !.created_at = HISTORY_LIMIT]

InitTies ==
    /\ req = [r \in 1..MaxReq |-> NewRequest]
    /\ worker = <<>>
    /\ clonePath = NoUrl
    /\ index = [c \in Collections |-> {}]
    /\ polled = NoResponse
    /\ cache = [u \in HistUsers |-> NoCache]
    /\ redis_client = Connected
    /\ fetched = NoFetch
    /\ mermaid_code = NoCode
    /\ raw_value = NoRaw
    /\ analysis_logs = <<>>
    /\ statusFile = JsonFile(IdleStatus)
    /\ \E k \in 0..(HISTORY_LIMIT - 1), tied \in SUBSET (1..(HISTORY_LIMIT - 1)) :
            /\ tied \subseteq 1..k
            /\ history = {IF i \in tied THEN TiedEntry(i) ELSE PriorEntry(i) :
                            i \in 1..k}
            /\ nextHistId = k + 1
    /\ clock = HISTORY_LIMIT

\* save_repository_to_history at the time clock, which stands still
\* (tick = 0) or moves on
HistoryUpsertTied(user_id, url, tick) ==
    /\ nextHistId < HISTORY_LIMIT + MaxUpserts
    /\ clock + tick < HISTORY_LIMIT + MaxUpserts
    /\ clock' = clock + tick
    /\ nextHistId' = IF Inserts(history, user_id, url)
                     THEN nextHistId + 1 ELSE nextHistId
    /\ history' \in AddOrUpdateOutcomes(history, nextHistId, clock,
            [HistoryArgs(user_id, url, SaverDocs)
                EXCEPT !.hld_graph = JsonDumps(@), !.lld_graph = JsonDumps(@)])
    /\ cache' = InvalidateHistoryCache(cache, WorkerRedisClient, user_id, TRUE)
    /\ UNCHANGED <<statusFile, analysis_logs, req, worker, clonePath, index,
                   polled, redis_client, fetched, textVars>>

\* a repository that may be in the table and two that are not
TieUrls == {<<"a", ToString(i)>> : i \in {1, HISTORY_LIMIT, HISTORY_LIMIT + 1}}

NextTies ==
    \E url \in TieUrls, tick \in {0, 1} : HistoryUpsertTied("u1", url, tick)

SpecTies == InitTies /\ [][NextTies]_vars

\* the web process serving the history endpoints while workers save
CacheUrls == {<<"a", "1">>, <<"a", "2">>}
WebClients == HistUsers \cup {Anonymous}
RepoIds == 1..(MaxUpserts + 1)

InitCache ==
    /\ req = [r \in 1..MaxReq |-> NewRequest]
    /\ worker = <<>>
    /\ clonePath = NoUrl
    /\ index = [c \in Collections |-> {}]
    /\ polled = NoResponse
    /\ analysis_logs = <<>>
    /\ statusFile = JsonFile(IdleStatus)
    /\ history = {}
    /\ nextHistId = 1
    /\ clock = HISTORY_LIMIT
    /\ cache = [u \in HistUsers |-> NoCache]
    /\ redis_client \in {Connected, NoClient}
    /\ fetched = NoFetch
    /\ mermaid_code = NoCode
    /\ raw_value = NoRaw

NextCache ==
    \/ \E user_id \in HistUsers, url \in CacheUrls, docs \in SomeDocs :
            HistoryUpsert(user_id, url, docs)
    \/ \E client \in WebClients, getOk \in BOOLEAN, setOk \in BOOLEAN :
            ApiGetHistory(client, getOk, setOk)
    \/ \E client \in WebClients, repo_id \in RepoIds :
            ApiGetRepositoryDetails(client, repo_id)
    \/ \E user_id \in HistUsers : CacheExpire(user_id)

SpecCache == InitCache /\ [][NextCache]_vars

\* get_user_repository_history as the three calls it makes (the cache read,
\* the database read, the cache write), while workers save for the same
\* owner; fetched holds the handler's locals between the calls
Reading == {"load", "fill"}

\* oauth_utils.py lines 159-162: the cache read, and the return on a hit
GetHistoryCheck(client, getOk) ==
    /\ fetched.op \notin Reading
    /\ LET cached == GetCachedHistory(cache, redis_client, client, getOk)
       IN  IF cached.some /\ cached.data # <<>>
           THEN fetched' = [op |-> "history", client |-> client,
                            code |-> 200, body |-> cached.data]
           ELSE fetched' = [op |-> "load", client |-> client]
    /\ UNCHANGED <<statusFile, analysis_logs, req, worker, clonePath, index,
                   history, nextHistId, clock, polled, cache, redis_client,
                   textVars>>

\* lines 164-182: the user's five latest rows, formatted
GetHistoryLoad ==
    /\ fetched.op = "load"
    /\ fetched' = [op |-> "fill", client |-> fetched.client,
                   history_data |-> HistoryData(history, fetched.client)]
    /\ UNCHANGED <<statusFile, analysis_logs, req, worker, clonePath, index,
                   history, nextHistId, clock, polled, cache, redis_client,
                   textVars>>

\* lines 184-188: the cache write, and the return
GetHistoryFill(setOk) ==
    /\ fetched.op = "fill"
    /\ cache' = SetCachedHistory(cache, redis_client, fetched.client,
                                 fetched.history_data, setOk)
    /\ fetched' = [op |-> "history", client |-> fetched.client,
                   code |-> 200, body |-> fetched.history_data]
    /\ UNCHANGED <<statusFile, analysis_logs, req, worker, clonePath, index,
                   history, nextHistId, clock, polled, redis_client, textVars>>

NextCoherence ==
    \/ NextSavers
    \/ \E client \in HistUsers, getOk \in BOOLEAN : GetHistoryCheck(client, getOk)
    \/ GetHistoryLoad
    \/ \E setOk \in BOOLEAN : GetHistoryFill(setOk)

SpecCoherence == InitSavers /\ [][NextCoherence]_vars

\* the analyze handler alone, on a log table that holds k rows of one client
PriorLogOf(client) ==
    [user_id |-> IF client \in Users THEN client ELSE NoId,
     session_id |-> IF client \in Sessions THEN client ELSE NoId,
     repo_url |-> <<"a", "x">>, status |-> "completed"]

InitQuota ==
    /\ InitPipeline
    /\ statusFile = JsonFile(IdleStatus)
    /\ \E k \in 0..(ANONYMOUS_GENERATION_LIMIT + 1), client \in Clients :
            analysis_logs = [i \in 1..k |-> PriorLogOf(client)]

NextQuota == ApiAnalyze(EnvAll, Requests)

SpecQuota == InitQuota /\ [][NextQuota]_vars

\* a single request and its run, under every outcome of every external call
NextRun ==
    \/ ApiAnalyze(EnvAll, {1})
    \/ RunAnalysis(EnvAll)

SpecRun == Init /\ [][NextRun]_vars

\* the requests of a session that is 0..2 analyses short of its limit, beside
\* those of a signed-in user, with runs that fail at the clone or complete
\* and log updates that may fail
EnvCount ==
    [urls |-> {<<"a", "x">>, NoUrl}, clients |-> Clients,
     clone |-> BOOLEAN, chroma |-> {TRUE}, embed |-> {TRUE},
     query |-> {TRUE}, gemini |-> {TRUE}, docs |-> SomeDocs,
     logdb |-> BOOLEAN, histdb |-> {TRUE}]

InitCount ==
    /\ InitPipeline
    /\ statusFile = JsonFile(IdleStatus)
    /\ \E k \in (ANONYMOUS_GENERATION_LIMIT - 2)..ANONYMOUS_GENERATION_LIMIT :
            analysis_logs = [i \in 1..k |-> PriorLog]

\* two requests are enough to have one admitted and one turned away
CountSlots == {1, 2}

NextCount ==
    \/ ApiAnalyze(EnvCount, CountSlots)
    \/ RunAnalysis(EnvCount)

SpecCount == InitCount /\ [][NextCount]_vars

\* runs of two repositories, one of them without a qualifying file, that
\* find the index as earlier runs left it; the other external calls succeed
EnvIndex ==
    [urls |-> Urls, clients |-> Users,
     clone |-> {TRUE}, chroma |-> {TRUE}, embed |-> BOOLEAN,
     query |-> {TRUE}, gemini |-> {TRUE}, docs |-> SomeDocs,
     logdb |-> {TRUE}, histdb |-> {TRUE}]

NextIndex ==
    \/ ApiAnalyze(EnvIndex, Requests)
    \/ RunAnalysis(EnvIndex)

SpecIndex == Init /\ [][NextIndex]_vars

\* VectorStoreService.generate_embeddings, file by file: a run of a/x by
\* the user u1 that found its index empty has read the files of the
\* checkout, file_contents being the items of the dict in their order
FilePaths == {ToString(i) : i \in 1..MaxFiles}
FileTexts == { <<"x">>, <<" ", "\n">>, <<>> }

RepositoryFiles ==
    { items \in UNION { [1..n -> [path : FilePaths, content : FileTexts]] : n \in 1..MaxFiles } :
        \A i \in DOMAIN items, j \in DOMAIN items :
            items[i].path = items[j].path => i = j }

EmbedLogId == ANONYMOUS_GENERATION_LIMIT

InitEmbed ==
    /\ req = [r \in 1..MaxReq |-> NewRequest]
    /\ clonePath = <<"a", "x">>
    /\ index = [c \in Collections |-> {}]
    /\ history = {}
    /\ nextHistId = 1
    /\ clock = 1
    /\ polled = NoResponse
    /\ cache = [u \in HistUsers |-> NoCache]
    /\ redis_client = Connected
    /\ fetched = NoFetch
    /\ mermaid_code = NoCode
    /\ raw_value = NoRaw
    /\ analysis_logs = [i \in 1..EmbedLogId |->
            IF i < EmbedLogId THEN PriorLog
            ELSE [user_id |-> "u1", session_id |-> NoId,
                  repo_url |-> <<"a", "x">>, status |-> "processing"]]
    /\ statusFile = JsonFile(ProcessingStatus)
    /\ \E items \in RepositoryFiles :
            worker = (EmbedLogId :>
                [NewWorker(<<"a", "x">>) EXCEPT
                    !.pc = "embed",
                    !.file_contents = items,
                    !.written = <<ProcessingStatus>>,
                    !.stages = <<"clone", "read">>])

\* the loop stopping at the first file whose embedding fails
RECURSIVE GenerateEmbeddingsAborting(_, _, _)
GenerateEmbeddingsAborting(collection, items, failing) ==
    IF items = <<>> THEN collection
    ELSE IF Strip(Head(items).content) = <<>>
    THEN GenerateEmbeddingsAborting(collection, Tail(items), failing)
    ELSE IF Head(items).path \in failing THEN collection
    ELSE GenerateEmbeddingsAborting(collection \cup {Head(items).path},
                                    Tail(items), failing)

\* services.py lines 143-173: the ids in the collection behind the loop;
\* failing holds the paths whose embeddings or add call raises
RECURSIVE GenerateEmbeddings(_, _, _)
GenerateEmbeddings(collection, items, failing) ==
    IF items = <<>> THEN collection
    ELSE IF Strip(Head(items).content) = <<>>
    THEN GenerateEmbeddings(collection, Tail(items), failing)
    ELSE IF Head(items).path \in failing
    THEN GenerateEmbeddings(collection, Tail(items), failing)
    ELSE GenerateEmbeddings(collection \cup {Head(items).path},
                            Tail(items), failing)

\* worker.py line 260
WorkerEmbedFiles(w, failing) ==
    /\ worker[w].pc = "embed"
    /\ index' = [index EXCEPT ![RepoName(worker[w].repo_url)] =
                    GenerateEmbeddings(@, worker[w].file_contents, failing)]
    /\ worker' = [worker EXCEPT ![w].pc = "query",
                                ![w].stages = Stage(w, "embed")]
    /\ UNCHANGED <<statusFile, analysis_logs, req, clonePath,
                   history, nextHistId, clock, polled, webVars, textVars>>

NextEmbed ==
    \E w \in DOMAIN worker :
        \/ \E failing \in SUBSET FilePaths : WorkerEmbedFiles(w, failing)
        \/ \E queryOk \in BOOLEAN : WorkerQuery(w, queryOk, TRUE)

SpecEmbed == InitEmbed /\ [][NextEmbed]_vars

\* the worker is a process of its own: the operating system keeps running it
\* and every call it makes returns or raises
SpecRunFair == SpecRun /\ WF_vars(RunAnalysis(EnvAll))

\* _sanitize_mermaid_code alone, applied to a diagram text and then to its
\* own output
SanitizePieces ==
    { <<"a", "_", "b">>, <<"a", "-">>, <<"[", "L", "]">>, <<"x">>,
      <<" ">>, <<"\t">>, <<"\n">>, <<"\r">>,
      <<"a", "c", "t", "i", "v", "a", "t", "e">>,
      <<"D", "e", "a", "c", "t", "i", "v", "a", "t", "e", " ", "x">> }

DiagramTexts ==
    { Concat(parts) :
        parts \in UNION { [1..n -> SanitizePieces] : n \in 0..MaxPieces } }

InitSanitize ==
    /\ InitStores
    /\ statusFile = JsonFile(IdleStatus)
    /\ analysis_logs = <<>>
    /\ raw_value = NoRaw
    /\ \E text \in DiagramTexts :
            mermaid_code = [input |-> text, code |-> text, passes |-> 0]

SanitizeAgain ==
    /\ mermaid_code.passes < MaxPasses
    /\ mermaid_code' = [mermaid_code EXCEPT
                            !.code = SanitizeMermaidCode(@),
                            !.passes = @ + 1]
    /\ UNCHANGED <<req, worker, statusFile, analysis_logs, clonePath, index,
                   history, nextHistId, clock, polled, webVars, raw_value>>

NextSanitize == SanitizeAgain

SpecSanitize == InitSanitize /\ [][NextSanitize]_vars

\* _sanitize_mermaid_code applied to a diagram of two node declarations, one
\* per line, with identifiers that differ in separator or letter case
DeclaredIds ==
    { <<"a", "_", "b">>, <<"a", "-", "b">>, <<"a", "B">>, <<"A", "_", "b">>,
      <<"a", "_", "B">>, <<"a", "_", "_", "b">>, <<"a", "b">>, <<"a", "_", "c">>,
      <<"x">> }

Declaration(node_id) == node_id \o <<"[", "L", "]">>

InitNodes ==
    /\ InitStores
    /\ statusFile = JsonFile(IdleStatus)
    /\ analysis_logs = <<>>
    /\ raw_value = NoRaw
    /\ \E first \in DeclaredIds, second \in DeclaredIds :
            LET text == Declaration(first) \o <<"\n">> \o Declaration(second)
            IN  mermaid_code = [input |-> text, code |-> text, passes |-> 0]

SpecNodes == InitNodes /\ [][NextSanitize]_vars

\* _parse_graph_data alone, applied to what a generation call returned: a
\* payload between a preamble and a postamble
PreamblePieces ==
    { <<"S", "u", "r", "e", ":">>, <<"\n">>, Fence, Fence \o JsonTag }

PostamblePieces ==
    { <<"t", "h", "a", "n", "k", "s">>, <<"\n">>, Fence }

Preambles ==
    { Concat(parts) :
        parts \in UNION { [1..n -> PreamblePieces] : n \in 0..MaxTalk } }

Postambles ==
    { Concat(parts) :
        parts \in UNION { [1..n -> PostamblePieces] : n \in 0..MaxTalk } }

EmptyObjectText == DictText
FlatObjectText == <<"{", "\"", "a", "\"", ":", " ", "1", "}">>
DiagramObjectText == <<"{", "\"", "m", "e", "r", "m", "a", "i", "d", "_", "c", "o", "d", "e", "\"", ":", " ", "\"", "a", "_", "b", "[", "L", "]", "\"", "}">>
NestedObjectText == <<"{", "\"", "a", "\"", ":", " ", "{", "\"", "b", "\"", ":", " ", "\"", "}", "\"", "}", "}">>

ObjectTexts ==
    {EmptyObjectText, FlatObjectText, DiagramObjectText, NestedObjectText}

Payloads == ObjectTexts \cup RawGraphs

NoResult == [status |-> "none"]

InitParse ==
    /\ InitStores
    /\ statusFile = JsonFile(IdleStatus)
    /\ analysis_logs = <<>>
    /\ mermaid_code = NoCode
    /\ \E preamble \in Preambles, payload \in Payloads,
          postamble \in Postambles, label \in {"HLD", "LLD"} :
            raw_value = [parsed |-> FALSE, preamble |-> preamble,
                         payload |-> payload, postamble |-> postamble,
                         label |-> label, result |-> NoResult]

ParseGraph ==
    /\ ~raw_value.parsed
    /\ raw_value' = [raw_value EXCEPT
            !.parsed = TRUE,
            !.result = ParseGraphData(
                raw_value.preamble \o raw_value.payload \o raw_value.postamble,
                raw_value.label)]
    /\ UNCHANGED <<req, worker, statusFile, analysis_logs, clonePath, index,
                   history, nextHistId, clock, polled, webVars, mermaid_code>>

NextParse == ParseGraph

SpecParse == InitParse /\ [][NextParse]_vars

----------------------------------------------------------------------------
(* Properties *)

Exits(w) == w \in DOMAIN worker /\ w \notin DOMAIN worker'
HasStage(w, name) == \E i \in DOMAIN worker[w].stages : worker[w].stages[i] = name
Rejections == {400, 403, 409}

\* C1: at most one analysis worker is active at any time, a worker being
\* active from its spawn until it has written its terminal status.
C1_SingleFlight == Cardinality(DOMAIN worker) <= 1

\* C2: every run writes exactly one processing status with null result and
\* error, before any other pipeline step, and then exactly one terminal
\* status (completed or error); nothing else reaches the status store.
C2_RunWritesProcessingThenTerminal ==
    [][/\ \A w \in DOMAIN worker :
            /\ (w \in DOMAIN worker' /\ worker'[w].written # worker[w].written) =>
                    /\ worker[w].written = <<>>
                    /\ worker'[w].written = <<ProcessingStatus>>
                    /\ worker[w].stages = <<>>
                    /\ analysis_logs[w].status = "pending"
                    /\ statusFile' = JsonFile(ProcessingStatus)
            /\ Exits(w) =>
                    /\ worker[w].written = <<ProcessingStatus>>
                    /\ FinalStatus(w).status \in {"completed", "error"}
                    /\ statusFile' = JsonFile(FinalStatus(w))
            /\ (w \in DOMAIN worker' /\ worker'[w].stages # worker[w].stages) =>
                    worker[w].written = <<ProcessingStatus>>
       /\ (statusFile' # statusFile /\ statusFile'.content = "json") =>
            \E w \in DOMAIN worker :
                \/ Exits(w)
                \/ worker[w].written = <<>> /\ worker'[w].written # <<>>
      ]_vars

C2_Witness ==
    /\ DOMAIN worker = {}
    /\ statusFile.content = "json"
    /\ statusFile.value.status = "completed"

\* C3: a completed status has a result and no error, an error status has an
\* error and no result, an idle or processing status has neither.
C3_StatusShape ==
    statusFile.content = "json" =>
        LET st == statusFile.value
        IN  /\ st.status \in {"idle", "processing", "completed", "error"}
            /\ st.status = "completed" =>
                    Get(st, "result") # Null /\ Get(st, "error") = Null
            /\ st.status = "error" =>
                    Get(st, "error") # Null /\ Get(st, "result") = Null
            /\ st.status \in {"idle", "processing"} =>
                    Get(st, "result") = Null /\ Get(st, "error") = Null

C3_Witness ==
    /\ statusFile.content = "json"
    /\ statusFile.value.status = "error"
    /\ Cardinality(DOMAIN worker) = 1

\* C4: a poll never observes a half-written status, so once a run has written
\* processing no poll answers idle.
C4_PollNeverIdleDuringRun ==
    [][(polled' # polled /\ \E w \in DOMAIN worker : worker[w].written # <<>>)
            => polled'.status # "idle"]_vars

\* C5: a rejected analyze request (400, 403 or 409) changes neither the
\* status store nor the analysis log, and starts no worker.
C5_RejectionHasNoEffect ==
    [][\A r \in Requests :
        /\ (req'[r] # req[r] /\ req'[r].logId = 0) =>
                /\ statusFile' = statusFile
                /\ analysis_logs' = analysis_logs
                /\ worker' = worker
                /\ history' = history
        /\ req'[r].response \in Rejections => req'[r].logId = 0
      ]_vars

C5_Witness ==
    \E r, q \in Requests : req[r].response = 409 /\ req[q].response = 202

\* C6: a run that finds its index empty and reads zero qualifying files ends
\* in error "No processable files ...", embeds nothing and saves no history.
C6_NoFilesIsFatal ==
    /\ [](\A w \in DOMAIN worker :
            (/\ worker[w].pc \notin {"open_processing", "dump_processing",
                                     "clone", "is_empty"}
             /\ clonePath # NoUrl
             /\ ReadRepositoryFiles(clonePath) = {}
             /\ worker[w].status.error # Str(MsgVector))
            => /\ worker[w].status = ErrorStatus(ProcessingStatus, MsgNoFiles)
               /\ worker[w].pc \in {"open_terminal", "dump_terminal"}
               /\ ~HasStage(w, "embed") /\ ~HasStage(w, "save")
               /\ index[RepoName(worker[w].repo_url)] = {}
               /\ history = {})
    /\ [][\A w \in DOMAIN worker :
            (Exits(w) /\ clonePath # NoUrl /\ ReadRepositoryFiles(clonePath) = {}
                      /\ worker[w].status.error # Str(MsgVector))
            => /\ statusFile' = JsonFile(Stamped(
                    [status |-> "error", result |-> Null,
                     error |-> Str(MsgNoFiles)], clock))
               /\ history' = {}]_vars

C6_Witness ==
    /\ DOMAIN worker = {}
    /\ statusFile.content = "json"
    /\ Get(statusFile.value, "error") = Str(MsgNoFiles)
    /\ \E i \in DOMAIN analysis_logs :
            analysis_logs[i].user_id = "u1" /\ analysis_logs[i].status = "failed"

TerminalPcs == {"open_terminal", "dump_terminal"}

\* C7: a run whose clone fails, or whose retrieval returns an empty context,
\* ends in error with the message of the failing step and a null result.
C7_CloneOrRetrievalFailureIsFatal ==
    /\ [](\A w \in DOMAIN worker :
            /\ (HasStage(w, "clone") /\ clonePath = NoUrl) =>
                    /\ worker[w].status = ErrorStatus(ProcessingStatus, MsgClone)
                    /\ worker[w].pc \in TerminalPcs
            /\ (HasStage(w, "query") /\ worker[w].context = "") =>
                    /\ worker[w].status = ErrorStatus(ProcessingStatus, MsgContext)
                    /\ worker[w].pc \in TerminalPcs)
    /\ [][\A w \in DOMAIN worker :
            (Exits(w) /\ worker[w].status.status = "error") =>
                /\ statusFile' = JsonFile(FinalStatus(w))
                /\ Get(statusFile'.value, "result") = Null
                /\ Get(statusFile'.value, "error") \notin {Null, Str("")}]_vars

C7_Witness ==
    /\ DOMAIN worker = {}
    /\ statusFile.content = "json"
    /\ Get(statusFile.value, "error") = Str(MsgClone)
    /\ clonePath = NoUrl

\* C8: whatever subset of the four generation calls fails, the run completes;
\* a diagram has status error iff its own text is empty or does not parse to
\* an object, whatever the other three texts are.
C8_ArtifactFailuresAreIsolated ==
    /\ [](\A w \in DOMAIN worker :
            HasStage(w, "generate") =>
                LET r == worker[w].status.result
                    d == worker[w].docs
                IN  /\ worker[w].status.status = "completed"
                    /\ worker[w].status.error = Null
                    /\ r.hld_graph.status = IF d.hld = DictText THEN "ok" ELSE "error"
                    /\ r.lld_graph.status = IF d.lld = DictText THEN "ok" ELSE "error"
                    /\ r.chat_response = d.documentation
                    /\ r.chat_summary = d.chat_summary)
    /\ [][\A w \in DOMAIN worker :
            (Exits(w) /\ HasStage(w, "generate")) =>
                statusFile' = JsonFile(FinalStatus(w))]_vars

C8_Witness ==
    /\ DOMAIN worker = {}
    /\ statusFile.content = "json"
    /\ statusFile.value.status = "completed"
    /\ statusFile.value.result.hld_graph.status = "error"
    /\ statusFile.value.result.lld_graph.status = "ok"
    /\ statusFile.value.result.chat_response # ""

\* C9: the history changes only in the save step of a run that has completed
\* and whose log row has a user; runs that end in error and anonymous runs
\* never reach that step.
C9_HistoryOnlyForCompletedOwnerRuns ==
    [][/\ history' # history =>
            \E w \in DOMAIN worker :
                /\ worker[w].pc = "save" /\ worker'[w].pc = "open_terminal"
                /\ analysis_logs[w].user_id # NoId
                /\ worker[w].status.status = "completed"
                /\ \A e \in (history' \ history) \cup (history \ history') :
                        e.user_id = analysis_logs[w].user_id
       /\ \A w \in DOMAIN worker :
            /\ (Exits(w) /\ HasStage(w, "save")) =>
                    /\ FinalStatus(w).status = "completed"
                    /\ analysis_logs[w].user_id # NoId
                    /\ statusFile' \in {JsonFile(FinalStatus(w)), GarbledFile}
      ]_vars

C9_Witness ==
    /\ history # {}
    /\ \E i \in DOMAIN analysis_logs :
            /\ i >= ANONYMOUS_GENERATION_LIMIT
            /\ analysis_logs[i].user_id = NoId
            /\ analysis_logs[i].status = "completed"
            /\ i \notin DOMAIN worker

\* C10: every owner holds at most 5 history entries.
C10_HistoryCapacity ==
    \A u \in HistUsers : Cardinality(UserEntries(history, u)) <= 5

C10_Witness ==
    /\ Cardinality(UserEntries(history, "u1")) = HISTORY_LIMIT - 1
    /\ \A e \in UserEntries(history, "u1") : e.id # 1
    /\ UserEntries(history, "u2") # {}

C12_IdentityPreservingUpsert ==
    [][\A u \in HistUsers, url \in HistUrls, docs \in HistDocs :
        (~Inserts(history, u, url) /\ HistoryUpsert(u, url, docs))
        => LET old == CHOOSE e \in history : e.user_id = u /\ e.repo_url = url
           IN  \E new \in history' :
                /\ history' = (history \ {old}) \cup {new}
                /\ Cardinality(UserEntries(history', u))
                        = Cardinality(UserEntries(history, u))
                /\ new.id = old.id
                /\ new.created_at = old.created_at
                /\ new.user_id = u /\ new.repo_url = url
                /\ new.documentation = docs.documentation
                /\ new.hld_graph = JsonDumps(ParseGraphData(docs.hld, "HLD"))
                /\ new.lld_graph = JsonDumps(ParseGraphData(docs.lld, "LLD"))
                /\ new.chat_summary = docs.chat_summary
                /\ new.last_accessed = clock
                /\ new.last_accessed > old.last_accessed
                /\ \A e \in history' \ {new} : e.last_accessed < new.last_accessed
                /\ nextHistId' = nextHistId
      ]_vars

C12_Witness ==
    \E e \in history :
        /\ e.user_id = "u1" /\ e.id = 2
        /\ e.created_at = 2 /\ e.last_accessed > HISTORY_LIMIT
        /\ e.hld_graph # PriorEntry(2).hld_graph
        /\ Cardinality(UserEntries(history, "u1")) = HISTORY_LIMIT - 1

\* C13: after a successful history upsert for an owner the cached listing of
\* that owner is gone, so every getHistory(owner) answers the listing of the
\* owner's stored entries, never a listing cached before the upsert.
C13_ListingReflectsUpsert ==
    [][\A u \in HistUsers, getOk \in BOOLEAN, setOk \in BOOLEAN :
        ApiGetHistory(u, getOk, setOk)
            => fetched'.body = HistoryData(history, u)
      ]_vars

\* C14: getDetails(owner, id) answers an entry only when the entry with that
\* id belongs to owner; for an entry of another owner the answer is the one
\* given for an id that does not exist.
C14_DetailsOnlyForOwner ==
    [][\A u \in HistUsers, id \in RepoIds :
        ApiGetRepositoryDetails(u, id)
        => IF \E e \in history : e.id = id /\ e.user_id = u
           THEN LET e == CHOOSE e \in history : e.id = id
                IN  /\ fetched'.code = 200
                    /\ fetched'.body.repo_url = e.repo_url
                    /\ fetched'.body.documentation = e.documentation
                    /\ e.user_id = u
           ELSE /\ fetched'.code = 404
                /\ fetched'.body = NotFound
      ]_vars

C14_Witness ==
    /\ fetched.op = "details"
    /\ fetched.code = 404
    /\ \E e \in history : e.id = fetched.repo_id /\ e.user_id # fetched.client
    /\ \E e \in history : e.user_id = fetched.client

\* C15: the quota check lets an anonymous request through iff fewer than 5
\* analyses are logged for its session (rejected with exactly 5, let through
\* with 4) and lets every authenticated request through, however many
\* analyses its user has.
C15_QuotaAdmission ==
    [][\A r \in Requests, url \in Urls, client \in Clients :
        ApiAnalyzeBegin(r, url, client)
        => IF client \in Sessions
           THEN LET count == SessionCount(analysis_logs, client)
                IN  /\ (req'[r].response = 403)
                            = (count >= ANONYMOUS_GENERATION_LIMIT)
                    /\ (req'[r].pc = "read_status")
                            = (count < ANONYMOUS_GENERATION_LIMIT)
           ELSE /\ req'[r].pc = "read_status"
                /\ req'[r].response = 0
      ]_vars

C15_Witness ==
    /\ \E r \in Requests : req[r].response = 403
    /\ \E r \in Requests :
            /\ req[r].response = 202
            /\ req[r].logId = ANONYMOUS_GENERATION_LIMIT
            /\ analysis_logs[req[r].logId].session_id = "s1"
    /\ SessionCount(analysis_logs, "s1") = ANONYMOUS_GENERATION_LIMIT

WorkerIds ==
    ANONYMOUS_GENERATION_LIMIT..(ANONYMOUS_GENERATION_LIMIT - 1 + MaxReq)

\* C16: every run that is started exits after writing a terminal status
\* (completed or error), and a run that has finished never leaves the status
\* at processing.
C16_RunReachesTerminalStatus ==
    /\ \A w \in WorkerIds :
            (w \in DOMAIN worker)
                ~> (/\ w \notin DOMAIN worker
                    /\ statusFile.content = "json"
                    /\ statusFile.value.status \in {"completed", "error"})
    /\ [][\A w \in DOMAIN worker :
            Exits(w) => /\ statusFile' = JsonFile(FinalStatus(w))
                        /\ FinalStatus(w).status \in {"completed", "error"}
                        /\ worker[w].written = <<ProcessingStatus>>]_vars

C16_Witness ==
    /\ DOMAIN worker = {}
    /\ \E r \in Requests : req[r].response = 202
    /\ statusFile.content = "json"
    /\ Get(statusFile.value, "error") = Str(MsgGemini)

\* C17: sanitizing is idempotent: a second application of
\* _sanitize_mermaid_code to its own output changes nothing, for every input
\* (carriage returns and line breaks inside bracketed labels included).
C17_SanitizeIdempotent ==
    [][mermaid_code.passes >= 1 => mermaid_code'.code = mermaid_code.code]_vars

\* a whole token of the text: a maximal run of identifier characters
IsToken(text, i, j) ==
    /\ i <= j
    /\ \A k \in i..j : IsIdChar(text[k])
    /\ i = 1 \/ ~IsIdChar(text[i - 1])
    /\ j = Len(text) \/ ~IsIdChar(text[j + 1])

\* the identifiers with a "_" or "-" that the text declares: the token is
\* immediately followed by an opening bracket
DeclaredWithSeparator(text) ==
    { SubSeq(text, ij[1], ij[2]) : ij \in
        { ij \in (DOMAIN text) \X (DOMAIN text) :
            /\ IsToken(text, ij[1], ij[2])
            /\ ij[2] < Len(text) /\ text[ij[2] + 1] = "["
            /\ \E k \in ij[1]..ij[2] : text[k] \in {"_", "-"} } }

WholeTokens(text) ==
    { SubSeq(text, ij[1], ij[2]) : ij \in
        { ij \in (DOMAIN text) \X (DOMAIN text) : IsToken(text, ij[1], ij[2]) } }

\* C18: identifier normalization is consistent: once the text is sanitized,
\* no whole-token occurrence remains of an identifier with "_" or "-" that
\* the text declares (identifier immediately followed by "["); declaration
\* and uses all carry the camelCase identifier.
C18_DeclaredIdentifiersRewritten ==
    mermaid_code.passes = 1 =>
        \A old_id \in DeclaredWithSeparator(mermaid_code.input) :
            old_id \notin WholeTokens(mermaid_code.code)

LifecycleKeywords ==
    { <<"a", "c", "t", "i", "v", "a", "t", "e">>,
      <<"d", "e", "a", "c", "t", "i", "v", "a", "t", "e">> }

\* the trimmed line starts with a lifecycle keyword, in any letter case
StartsWithKeyword(line) ==
    \E keyword \in LifecycleKeywords :
        /\ Len(Strip(line)) >= Len(keyword)
        /\ \A k \in DOMAIN keyword : LowerChar(Strip(line)[k]) = keyword[k]

\* the same, and a space follows the keyword
StartsWithDirective(line) ==
    \E keyword \in LifecycleKeywords :
        /\ Len(Strip(line)) > Len(keyword)
        /\ \A k \in DOMAIN keyword : LowerChar(Strip(line)[k]) = keyword[k]
        /\ Strip(line)[Len(keyword) + 1] = " "

\* the lines the sanitizer filters: those of the text once labels are
\* collapsed and identifiers rewritten
LinesToFilter(text) == SplitLines(NormalizeIds(CollapseLabels(text, 1)))

\* a kept line as it is written out
WrittenLine(line) == RStrip(LetterBetweenNodes(line, 1))

\* C19 as stated: every line whose trimmed text starts with a lifecycle
\* keyword, in any letter case and whatever follows the keyword, is removed,
\* and every other line is kept.
C19_KeywordLinesRemoved ==
    mermaid_code.passes = 1 =>
        LET lines == LinesToFilter(mermaid_code.input)
            kept == SelectSeq(lines, LAMBDA line : ~StartsWithKeyword(line))
        IN  mermaid_code.code
                = Join([k \in DOMAIN kept |-> WrittenLine(kept[k])], <<"\n">>)

\* C19, amended: exactly the lines whose trimmed text starts, in any letter
\* case, with a lifecycle keyword followed by a space are removed; every
\* other line is kept, in order, also one where the keyword ends the line or
\* is followed by any other character.
C19_DirectiveLinesRemoved ==
    mermaid_code.passes = 1 =>
        LET lines == LinesToFilter(mermaid_code.input)
            kept == SelectSeq(lines, LAMBDA line : ~StartsWithDirective(line))
        IN  mermaid_code.code
                = Join([k \in DOMAIN kept |-> WrittenLine(kept[k])], <<"\n">>)

\* a directive in capitals is removed beside a kept line that is the bare
\* keyword
C19_Witness ==
    /\ mermaid_code.passes = 1
    /\ \E k \in DOMAIN LinesToFilter(mermaid_code.input) :
            /\ StartsWithDirective(LinesToFilter(mermaid_code.input)[k])
            /\ LinesToFilter(mermaid_code.input)[k][1] \in UpperSet
    /\ \E k \in DOMAIN LinesToFilter(mermaid_code.input) :
            /\ StartsWithKeyword(LinesToFilter(mermaid_code.input)[k])
            /\ ~StartsWithDirective(LinesToFilter(mermaid_code.input)[k])
    /\ StartsWithKeyword(mermaid_code.code)
    /\ Len(SplitLines(mermaid_code.code)) = 1

\* the graph expected for each object text: the object, its diagram text
\* sanitized
GraphOf ==
    (EmptyObjectText :> JsonDict(<<>>))
    @@ (FlatObjectText :> JsonDict(<<"a">> :> JsonInt(1)))
    @@ (DiagramObjectText
            :> JsonDict(MermaidCode :> JsonText(<<"a", "B", "[", "L", "]">>)))
    @@ (NestedObjectText
            :> JsonDict(<<"a">> :> JsonDict(<<"b">> :> JsonText(<<"}">>))))

\* conversational text: no brace (no piece holds one) and no fence
IsTalk(text) == \A k \in DOMAIN text : text[k] \notin {"{", "}", Backtick}

\* C20 as stated: for a text P + J + S where J is a JSON object and P and S
\* are conversational text without braces, either of which may be empty, the
\* parse returns status ok and the graph is the object J.
C20_PreambleAndPostambleStripped ==
    (/\ raw_value.parsed
     /\ raw_value.payload \in ObjectTexts
     /\ IsTalk(raw_value.preamble) /\ IsTalk(raw_value.postamble))
        => /\ raw_value.result.status = "ok"
           /\ raw_value.result.graph = GraphOf[raw_value.payload]

\* C20, amended: the same when P holds more than whitespace, or S holds
\* nothing but whitespace; the graph is J with its diagram text sanitized.
C20_PreambleStripped ==
    (/\ raw_value.parsed
     /\ raw_value.payload \in ObjectTexts
     /\ IsTalk(raw_value.preamble) /\ IsTalk(raw_value.postamble)
     /\ Strip(raw_value.preamble) # <<>> \/ Strip(raw_value.postamble) = <<>>)
        => /\ raw_value.result.status = "ok"
           /\ raw_value.result.graph = GraphOf[raw_value.payload]

\* a diagram object between a preamble and a postamble of words
C20_Witness ==
    /\ raw_value.parsed
    /\ raw_value.payload = DiagramObjectText
    /\ Strip(raw_value.preamble) = <<"S", "u", "r", "e", ":">>
    /\ Strip(raw_value.postamble) = <<"t", "h", "a", "n", "k", "s">>
    /\ raw_value.result.status = "ok"
    /\ raw_value.result.graph.members[MermaidCode].chars = <<"a", "B", "[", "L", "]">>

\* a triple-backtick marker with or without the json tag, and the closing
\* marker, each alone on its side of the payload but for whitespace
IsOpeningFence(text) == Strip(text) \in {Fence, Fence \o JsonTag}
IsClosingFence(text) == Strip(text) = Fence

\* C21 as stated: a JSON object J between an opening triple-backtick fence,
\* with or without the json tag, and a closing fence is parsed to status ok
\* with the graph equal to J, the value J denotes.
C21_FencedObjectReturned ==
    (/\ raw_value.parsed
     /\ raw_value.payload \in ObjectTexts
     /\ IsOpeningFence(raw_value.preamble)
     /\ IsClosingFence(raw_value.postamble))
        => /\ raw_value.result.status = "ok"
           /\ raw_value.result.graph = JsonLoads(raw_value.payload).value

\* C21, amended: the same text is parsed to status ok and the graph is J
\* with the text of its mermaid_code member sanitized.
C21_FencedObjectParsed ==
    (/\ raw_value.parsed
     /\ raw_value.payload \in ObjectTexts
     /\ IsOpeningFence(raw_value.preamble)
     /\ IsClosingFence(raw_value.postamble))
        => /\ raw_value.result.status = "ok"
           /\ raw_value.result.graph = GraphOf[raw_value.payload]

\* the fenced text of the unit test: tag, newline, object, newline, fence
C21_Witness ==
    /\ raw_value.parsed
    /\ raw_value.preamble = Fence \o JsonTag \o <<"\n">>
    /\ raw_value.payload = FlatObjectText
    /\ raw_value.postamble = <<"\n">> \o Fence
    /\ raw_value.result.status = "ok"
    /\ raw_value.result.graph = JsonDict(<<"a">> :> JsonInt(1))

\* the text handed to _parse_graph_data
RawInput == raw_value.preamble \o raw_value.payload \o raw_value.postamble

\* C22: an error result that carries raw_preview (the text failed to parse,
\* or the parsed value is not an object) carries the first 400 characters of
\* the raw input: a prefix of the raw input, at most 400 characters long.
C22_RawPreviewIsPrefix ==
    (raw_value.parsed /\ "raw_preview" \in DOMAIN raw_value.result)
        => /\ raw_value.result.status = "error"
           /\ Len(raw_value.result.raw_preview) <= RAW_PREVIEW_LENGTH
           /\ StartsWith(RawInput, raw_value.result.raw_preview)
           /\ \/ Len(raw_value.result.raw_preview) = RAW_PREVIEW_LENGTH
              \/ raw_value.result.raw_preview = RawInput

\* C23: for every label, the parse of an empty or absent text returns status
\* error with the message "No <label> data returned.", and nothing else: no
\* graph and no preview.
C23_EmptyInputIsError ==
    (raw_value.parsed /\ RawInput = <<>>)
        => /\ DOMAIN raw_value.result = {"status", "message"}
           /\ raw_value.result.status = "error"
           /\ raw_value.result.message
                = "No " \o raw_value.label \o " data returned."

\* the call of the unit test: the empty text under the label LLD
C23_Witness ==
    /\ raw_value.parsed
    /\ RawInput = <<>>
    /\ raw_value.label = "LLD"
    /\ raw_value.result = [status |-> "error",
                           message |-> "No LLD data returned."]

\* C24: an inserting upsert deletes an entry only if the owner already held
\* 5 entries before the insert; for an owner holding fewer than 5 entries,
\* exactly 4 included, the insert removes nothing and the owner's count
\* grows by exactly one.
C24_EvictionOnlyAtCapacity ==
    [][\A u \in HistUsers, url \in HistUrls, docs \in HistDocs :
        LET before == UserEntries(history, u)
            after == UserEntries(history', u)
        IN  (Inserts(history, u, url) /\ HistoryUpsert(u, url, docs))
            => /\ before \ after # {} => Cardinality(before) >= HISTORY_LIMIT
               /\ Cardinality(before) < HISTORY_LIMIT
                    => /\ before \subseteq after
                       /\ Cardinality(after) = Cardinality(before) + 1
      ]_vars

\* C25: in every reachable state, the states reached by two upserts for the
\* same owner and repository interleaving included, there is at most one
\* history entry per owner_id and repo_url.
C25_UniquePerOwnerAndRepo ==
    \A e1 \in history, e2 \in history :
        (e1.user_id = e2.user_id /\ e1.repo_url = e2.repo_url) => e1 = e2

\* the step each fatal error is raised at, and the stages that follow it
FatalMessages == {MsgClone, MsgNoFiles, MsgContext}

FatalStep(msg) ==
    CASE msg = MsgClone -> "clone"
      [] msg = MsgNoFiles -> "read"
      [] msg = MsgContext -> "query"

LaterStages(stage) ==
    CASE stage = "clone" -> {"is_empty", "read", "embed", "query", "generate", "save"}
      [] stage = "read" -> {"embed", "query", "generate", "save"}
      [] stage = "query" -> {"generate", "save"}

HasFailed(w) ==
    /\ worker[w].status.status = "error"
    /\ \E msg \in FatalMessages : worker[w].status.error = Str(msg)

FailedAt(w) ==
    FatalStep(CHOOSE msg \in FatalMessages : worker[w].status.error = Str(msg))

\* C26: once a fatal step has raised (clone failure, no qualifying files,
\* empty retrieval context), the run executes no later stage: the failing
\* step is the last stage of the run, only the terminal status write
\* follows, and the index and the history stay as they are.
C26_FatalErrorsShortCircuit ==
    /\ [](\A w \in DOMAIN worker :
            HasFailed(w) =>
                /\ worker[w].pc \in TerminalPcs
                /\ worker[w].stages[Len(worker[w].stages)] = FailedAt(w)
                /\ \A later \in LaterStages(FailedAt(w)) : ~HasStage(w, later))
    /\ [][\A w \in DOMAIN worker :
            HasFailed(w) =>
                /\ index' = index
                /\ history' = history
                /\ w \in DOMAIN worker' =>
                        /\ worker'[w].stages = worker[w].stages
                        /\ worker'[w].status = worker[w].status
                        /\ worker'[w].pc = "dump_terminal"]_vars

\* a run that embedded its files and then retrieved no context is about to
\* write its error status: no generation, no history entry
C26_Witness ==
    \E w \in DOMAIN worker :
        /\ worker[w].pc = "dump_terminal"
        /\ worker[w].status.error = Str(MsgContext)
        /\ worker[w].stages = <<"clone", "read", "embed", "query">>
        /\ analysis_logs[w].user_id # NoId
        /\ history = {}

\* the step of a run that checks its index: is_empty and what follows it up
\* to the next external call
ChecksIndex(w) ==
    /\ w \in DOMAIN worker /\ worker[w].pc = "is_empty"
    /\ w \in DOMAIN worker' /\ worker'[w].pc # "is_empty"

IndexIsEmpty(w) == index[RepoName(worker[w].repo_url)] = {}

ReadsFiles(w) == worker'[w].stages = Stage(w, "read")

\* C27 as stated: a run reads the repository files and calls embed-and-store
\* iff the index of its key is empty when checked; on a populated index it
\* reads no file, embeds nothing and goes on to retrieval.
C27_EmbedsIffIndexEmpty ==
    [][\A w \in DOMAIN worker :
        ChecksIndex(w) =>
            /\ ReadsFiles(w) <=> IndexIsEmpty(w)
            /\ worker'[w].pc = "embed" <=> IndexIsEmpty(w)
            /\ ~IndexIsEmpty(w) => worker'[w].pc = "query"
      ]_vars

\* C27, amended: a run reads the repository files iff the index of its key
\* is empty when checked, and calls embed-and-store iff moreover a file
\* qualifies (with none it fails, and only a run at embed-and-store writes
\* to the index); on a populated index it reads no file, embeds nothing and
\* goes on to retrieval.
C27_EmbedsIffIndexEmptyAndFilesFound ==
    [][/\ \A w \in DOMAIN worker :
            ChecksIndex(w) =>
                /\ ReadsFiles(w) <=> IndexIsEmpty(w)
                /\ worker'[w].pc = "embed"
                    <=> (IndexIsEmpty(w) /\ ReadRepositoryFiles(clonePath) # {})
                /\ (IndexIsEmpty(w) /\ ReadRepositoryFiles(clonePath) = {})
                    => /\ worker'[w].pc = "open_terminal"
                       /\ worker'[w].status.error = Str(MsgNoFiles)
                /\ ~IndexIsEmpty(w)
                    => /\ worker'[w].pc = "query"
                       /\ worker'[w].stages = Stage(w, "is_empty")
                /\ index' = index
       /\ index' # index =>
            \E w \in DOMAIN worker :
                /\ worker[w].pc = "embed" /\ worker'[w].pc = "query"
                /\ HasStage(w, "read") /\ ~HasStage(w, "is_empty")
      ]_vars

\* a run that found the index populated by an earlier run has gone from the
\* check to retrieval and on to generation
C27_Witness ==
    \E w \in DOMAIN worker :
        /\ worker[w].pc = "generate"
        /\ worker[w].stages = <<"clone", "is_empty", "query">>
        /\ index[RepoName(worker[w].repo_url)] # {}
        /\ \A v \in DOMAIN worker : v = w

\* the files of a run that hold more than whitespace
NonBlankPaths(items) ==
    {items[i].path : i \in {j \in DOMAIN items : Strip(items[j].content) # <<>>}}

\* C28: whichever files fail to embed, embed-and-store stores every other
\* file that holds more than whitespace, stores no whitespace-only file,
\* leaves the run in processing and hands over to retrieval.
C28_EmbeddingFailuresAreSkipped ==
    [][\A w \in DOMAIN worker, failing \in SUBSET FilePaths :
        WorkerEmbedFiles(w, failing) =>
            /\ index'[RepoName(worker[w].repo_url)]
                    = index[RepoName(worker[w].repo_url)]
                        \cup (NonBlankPaths(worker[w].file_contents) \ failing)
            /\ worker'[w].pc = "query"
            /\ worker'[w].status = ProcessingStatus
            /\ analysis_logs' = analysis_logs
      ]_vars

\* the first file failed to embed, a later one is stored, a whitespace-only
\* one is not, and retrieval has returned a context
C28_Witness ==
    \E w \in DOMAIN worker :
        LET items == worker[w].file_contents
            stored == index[RepoName(worker[w].repo_url)]
        IN  /\ worker[w].pc = "generate"
            /\ Len(items) = 3
            /\ Strip(items[1].content) # <<>> /\ items[1].path \notin stored
            /\ Strip(items[2].content) = <<>> /\ items[2].path \notin stored
            /\ items[3].path \in stored

\* C29: on every exit path of a run, completed or failed at whatever step,
\* the terminal status written to the status file carries the end
\* timestamp; a terminal status in the file always has one.
C29_TerminalStatusIsStamped ==
    /\ [][\A w \in DOMAIN worker :
            Exits(w) =>
                /\ statusFile'.content = "json"
                /\ statusFile'.value.status \in {"completed", "error"}
                /\ statusFile'.value.status = worker[w].status.status
                /\ "timestamp" \in DOMAIN statusFile'.value
                /\ statusFile'.value.timestamp = clock]_vars
    /\ [](statusFile.content = "json" =>
            (statusFile.value.status \in {"completed", "error"}
                <=> "timestamp" \in DOMAIN statusFile.value))

\* a run that failed to open its index has exited and left a stamped error
C29_Witness ==
    /\ DOMAIN worker = {}
    /\ statusFile.content = "json"
    /\ Get(statusFile.value, "error") = Str(MsgVector)
    /\ "timestamp" \in DOMAIN statusFile.value

\* a listing of an owner's stored entries: at most 5 summaries, one per
\* entry, the latest last_accessed first
IsProjection(listing, entries) ==
    /\ Len(listing) <= HISTORY_LIMIT
    /\ Len(listing) = Min({HISTORY_LIMIT, Cardinality(entries)})
    /\ \A i \in DOMAIN listing : \E e \in entries : listing[i] = Summary(e)
    /\ \A i \in DOMAIN listing, j \in DOMAIN listing :
            i < j => listing[i].last_accessed.of > listing[j].last_accessed.of

\* C30: with the cache at work, getHistory(owner) on a miss returns the
\* projection of the owner's stored entries (at most 5 summaries, latest
\* first) and stores it in the cache; on a hit it returns the cached
\* projection, whatever the store holds, and leaves the cache as it is.
C30_ReadThroughListing ==
    [][\A u \in HistUsers :
        (redis_client = Connected /\ ApiGetHistory(u, TRUE, TRUE)) =>
            IF cache[u] = NoCache
            THEN /\ IsProjection(fetched'.body, UserEntries(history, u))
                 /\ cache'[u] = JsonDumps(fetched'.body)
            ELSE /\ fetched'.body = JsonParse(cache[u])
                 /\ cache' = cache
      ]_vars

\* the caching layer is unavailable to a call: there is no client, or the
\* call's Redis commands fail
CacheUnavailable(getOk, setOk) ==
    redis_client = NoClient \/ (~getOk /\ ~setOk)

\* C31: while the caching layer is unavailable (no client, or every cache
\* call fails), getHistory answers 200 with the listing computed from the
\* store and changes neither store nor cache, and a history upsert still
\* writes its entry.
C31_CacheUnavailableFallsBack ==
    /\ [][\A u \in HistUsers, getOk \in BOOLEAN, setOk \in BOOLEAN :
            (CacheUnavailable(getOk, setOk) /\ ApiGetHistory(u, getOk, setOk))
                => /\ fetched'.code = 200
                   /\ fetched'.body = HistoryData(history, u)
                   /\ cache' = cache
                   /\ history' = history
         ]_vars
    /\ [][\A u \in HistUsers, url \in CacheUrls, docs \in SomeDocs :
            HistoryUpsert(u, url, docs)
                => \E e \in history' :
                        /\ e.user_id = u
                        /\ e.repo_url = url
                        /\ e.documentation = docs.documentation
                        /\ e.last_accessed = clock
         ]_vars

\* a listing of two entries answered from the store without a Redis client,
\* nothing being cached for the owner
C31_Witness ==
    /\ redis_client = NoClient
    /\ fetched # NoFetch
    /\ fetched.op = "history"
    /\ fetched.code = 200
    /\ Len(fetched.body) = 2
    /\ fetched.body = HistoryData(history, fetched.client)
    /\ cache[fetched.client] = NoCache

\* saver w takes a step of add_or_update
SaverStep(w) ==
    SaverQuery(w) \/ SaverUpdate(w) \/ SaverAdd(w) \/ SaverCommit(w)

\* C32: under every interleaving of the upserts of different owners, an
\* upsert reads and modifies the data of its own owner only: the row it
\* found and the row it marked for deletion are its owner's, the eviction
\* is decided by the count of its owner's rows, and each of its steps leaves
\* the entries and the cached listing of every other owner, and the other
\* upserts in progress, as they were.
C32_OwnersDoNotInterfere ==
    /\ [](\A w \in DOMAIN worker : \A e \in history :
            e.id \in {worker[w].existing, worker[w].oldest}
                => e.user_id = worker[w].user_id)
    /\ [][\A w \in DOMAIN worker : SaverStep(w) =>
            /\ \A v \in HistUsers \ {worker[w].user_id} :
                    /\ UserEntries(history', v) = UserEntries(history, v)
                    /\ cache'[v] = cache[v]
            /\ \A o \in DOMAIN worker \ {w} : worker'[o] = worker[o]
            /\ worker[w].pc = "add" =>
                    (worker'[w].oldest # 0 <=>
                        Cardinality(UserEntries(history, worker[w].user_id)) + 1
                            >= HISTORY_LIMIT)
         ]_vars

\* the upserts of "u1" and "u2" have both committed, that of "u1" evicted a
\* row, and the row of "u2" older than every row of "u1" is still there
C32_Witness ==
    /\ \A w \in DOMAIN worker : worker[w].pc = "done"
    /\ \E w \in DOMAIN worker :
            /\ worker[w].user_id = "u1"
            /\ worker[w].oldest # 0
            /\ \A e \in history : e.id # worker[w].oldest
    /\ \E w \in DOMAIN worker :
            /\ worker[w].user_id = "u2"
            /\ worker[w].new_history \subseteq history
            /\ worker[w].new_history # {}
    /\ \E e \in UserEntries(history, "u2") :
            \A o \in UserEntries(history, "u1") :
                e.last_accessed < o.last_accessed

\* request r of session sid inserts its analysis log row
Admits(r, sid) ==
    /\ req[r].pc = "add_log"
    /\ req[r].session_id = sid
    /\ ApiAnalyzeAddLog(r)

\* C33: the analysis count of an anonymous session grows by exactly one in
\* the step in which a request of that session is admitted (its log row is
\* inserted, the request then answers 202) and is left as it is by every
\* other step: a rejection, a request of another client, a run starting,
\* failing or completing, a status update.
C33_SessionCountIsMonotonic ==
    /\ [][\A sid \in Sessions :
            SessionCount(analysis_logs', sid) =
                IF \E r \in Requests : Admits(r, sid)
                THEN SessionCount(analysis_logs, sid) + 1
                ELSE SessionCount(analysis_logs, sid)
         ]_vars
    /\ [](\A r \in Requests :
            (req[r].pc = "popen" \/ req[r].response = 202) <=> req[r].logId # 0)

\* the session has reached its limit with a request whose run completed
\* since, beside the failed runs counted before, and its next request was
\* rejected
C33_Witness ==
    /\ SessionCount(analysis_logs, "s1") = ANONYMOUS_GENERATION_LIMIT
    /\ \E r \in CountSlots :
            /\ req[r].response = 202
            /\ analysis_logs[req[r].logId].session_id = "s1"
            /\ analysis_logs[req[r].logId].status = "completed"
    /\ \E i \in DOMAIN analysis_logs :
            /\ analysis_logs[i].session_id = "s1"
            /\ analysis_logs[i].status = "failed"
    /\ \E r \in CountSlots : req[r].response = 403

\* no run has written the status file yet
NeverWritten == statusFile \in {MissingFile, JsonFile(IdleStatus)}

\* the status file cannot be read: it is missing, truncated or not JSON
Unreadable == statusFile.content # "json"

\* C34: a read of the status while the file is missing, truncated or not
\* JSON answers the idle default {status: idle, result: null, error: null};
\* a read before any run has written answers idle without result or error;
\* neither read creates or changes the status file.
C34_UnwrittenStatusReadsIdle ==
    [][ApiStatus =>
            /\ statusFile' = statusFile
            /\ Unreadable => polled' = IdleDefault
            /\ NeverWritten =>
                    /\ polled'.status = "idle"
                    /\ Get(polled', "result") = Null
                    /\ Get(polled', "error") = Null
      ]_vars

\* a poll has answered the idle default and the file is still missing
C34_Witness ==
    /\ polled = IdleDefault
    /\ statusFile = MissingFile

\* C35: however the analyze requests of one anonymous session interleave,
\* the analysis log never holds more than 5 rows of that session.
C35_QuotaUnderConcurrency ==
    \A sid \in Sessions :
        SessionCount(analysis_logs, sid) <= ANONYMOUS_GENERATION_LIMIT

\* every upsert has committed and no getHistory call is under way
AllFinished ==
    /\ \A w \in DOMAIN worker : worker[w].pc = "done"
    /\ fetched.op \notin Reading

\* C36: however the calls of getHistory(owner) interleave with the upserts
\* of the same owner, once all of them have finished the cached listing of
\* the owner is absent or is the listing of the owner's stored entries.
C36_CacheCoherent ==
    AllFinished =>
        \A u \in HistUsers :
            \/ cache[u] = NoCache
            \/ JsonParse(cache[u]) = HistoryData(history, u)

\* C37: over any sequence of runs, the files a run embeds were read from a
\* checkout of the run's own repository, and the index a run has queried
\* holds content of that repository only.
C37_IndexBelongsToRepository ==
    \A w \in DOMAIN worker :
        /\ worker[w].file_contents \subseteq {worker[w].repo_url}
        /\ worker[w].context # "" =>
                index[RepoName(worker[w].repo_url)] \subseteq {worker[w].repo_url}

\* C38: an upsert that inserts an entry leaves an entry for its (owner,
\* repo_url) in the store, also when the new entry's last_accessed equals
\* that of entries already there.
C38_InsertedEntrySurvives ==
    [][\A url \in TieUrls, tick \in {0, 1} :
        (Inserts(history, "u1", url) /\ HistoryUpsertTied("u1", url, tick))
            => \E e \in history' : e.user_id = "u1" /\ e.repo_url = url
      ]_vars

\* C39: two distinct node identifiers that the input declares are distinct
\* identifiers in the sanitized text.
C39_NormalizationKeepsNodesApart ==
    mermaid_code.passes = 1 =>
        LET declared == NodeIds(mermaid_code.input, 1)
            written == NodeIds(mermaid_code.code, 1)
        IN  (Len(declared) = 2 /\ declared[1] # declared[2])
                => (Len(written) = 2 /\ written[1] # written[2])

\* a call of one of the two read operations of the history
ReadsHistory(client) ==
    \/ \E getOk \in BOOLEAN, setOk \in BOOLEAN : ApiGetHistory(client, getOk, setOk)
    \/ \E repo_id \in RepoIds : ApiGetRepositoryDetails(client, repo_id)

\* C40: getHistory and getDetails leave the store as it is: no entry is
\* created, deleted or modified, no last_accessed changes, no id is used up,
\* and every owner's oldest entry, the next to be evicted, is the same after
\* the read as before.
C40_ReadsArePure ==
    [][\A client \in WebClients : ReadsHistory(client) =>
            /\ history' = history
            /\ nextHistId' = nextHistId
            /\ \A u \in HistUsers : UserEntries(history, u) # {} =>
                    Oldest(UserEntries(history', u)) = Oldest(UserEntries(history, u))
      ]_vars

\* the details of an owner's oldest entry have been read, and the entry is
\* still the oldest of the owner's two
C40_Witness ==
    /\ fetched.op = "details"
    /\ fetched.code = 200
    /\ Cardinality(UserEntries(history, fetched.client)) = 2
    /\ Oldest(UserEntries(history, fetched.client)).id = fetched.repo_id
    /\ Oldest(UserEntries(history, fetched.client)).last_accessed < clock - 1

=============================================================================
